---- MODULE Spec2Model ----
(***************************************************************************)
(* Withdrawal state machine and balance ledger of ton-pvp-app              *)
(* (src/withdraw_routes.js, the hardened Postgres version, src/db.js and   *)
(* payout.js).  Every HTTP request is a process that runs its handler one  *)
(* awaited statement at a time; the store is Postgres at its default       *)
(* isolation level (READ COMMITTED): a statement sees what was committed   *)
(* when it starts, a transaction's writes appear at COMMIT, and a row      *)
(* locked by SELECT ... FOR UPDATE blocks other lockers and writers of     *)
(* that row until the locking transaction ends.                            *)
(*                                                                         *)
(* Amounts are nanoTON integers; the balance of the model stays far below  *)
(* 2^31.  Left out because no ledger or withdrawal state depends on them:  *)
(* the users row written by ensureUser, sessions.last_seen, the            *)
(* created_at / decided_at timestamps (decided records that decided_at is  *)
(* set), the to_address column.  The fields sent, appended, writes and     *)
(* at of a request are history: the gateway calls, ledger entries and      *)
(* row writes the request has made, and the status of its withdrawal when  *)
(* the request arrived.                                                    *)
(***************************************************************************)
EXTENDS Integers, Sequences, FiniteSets, TLC

\* ------------------------------------------------------------------ bounds
MaxProcs == 3
MaxW == 2
MaxFaults == 1
MaxFaultProcs == 2
\* user requests (bonus, referral, refund, game finish) served in a run
MaxCalls == 2
\* rows of game_runs
MaxRuns == 2
\* the number of times the clock advances
MaxClock == 3

MaxD == 2
MaxTx == 1

Procs == 1..MaxProcs
UProcs == 1..MaxCalls
Runs == 1..MaxRuns
Ids == 1..MaxW
DepIds == 1..MaxD
Pollers == {"P1", "P2"}

\* ------------------------------------------------------- decimal amounts
\* A JS Number holding a decimal amount, as String() prints it: the integer
\* part and the digits after the point (none for an integer).
Dec(i, f) == [int |-> i, frac |-> f]

\* Number("abc"): not a number
NaN == [nan |-> TRUE]
IsFinite(x) == "nan" \notin DOMAIN x

NanoPerTon == 1000000000

Digit(f, i) == IF i <= Len(f) THEN f[i] ELSE 0

RECURSIVE DigitsToNat(_)
DigitsToNat(ds) ==
  IF ds = <<>> THEN 0
  ELSE 10 * DigitsToNat(SubSeq(ds, 1, Len(ds) - 1)) + ds[Len(ds)]

tonToNanoBig(ton) ==
  ton.int * NanoPerTon
    + DigitsToNat(SubSeq(ton.frac \o <<0, 0, 0, 0, 0, 0, 0, 0, 0>>, 1, 9))

\* numeric order of two amounts (the JS operators < and <= on Numbers)
NumLT(x, y) ==
  \/ x.int < y.int
  \/ /\ x.int = y.int
     /\ \E i \in 1..(Len(x.frac) + Len(y.frac)) :
          /\ Digit(x.frac, i) < Digit(y.frac, i)
          /\ \A j \in 1..(i - 1) : Digit(x.frac, j) = Digit(y.frac, j)

NumLE(x, y) == ~NumLT(y, x)

\* ------------------------------------------------------------ configuration
MIN_WITHDRAW_TON == Dec(0, <<1>>)
\* the auto-payout ceiling the server runs with unless a specification says
\* otherwise
Ceiling == Dec(0, <<2>>)

\* ------------------------------------------------------------------ inputs
Addrs == {"A1", "A2"}
Sessions == Addrs \cup {"none"}
Destinations == {"", "UQdest"}
AmountInputs == {NaN, Dec(-1, <<>>), Dec(0, <<>>), Dec(0, <<0, 5>>), Dec(0, <<2>>), Dec(0, <<4>>)}
InitialDeposit == Dec(0, <<5>>)
\* ADMIN_TOKEN as deployed: set, or unset ('')
AdminSecret == "secret"
AdminTokens == {"", AdminSecret}
Tokens == {"", "secret"}

VARIABLES
  ADMIN_TOKEN,      \* configured admin token ('' when unset)
  DISABLE_PAYOUTS,  \* configuration flag, fixed for the life of the server
  AUTO_PAYOUT_MAX_TON, \* configured ceiling, fixed for the life of the server
  withdrawals,      \* table withdrawals: id -> row (status "absent": no row)
  ledger,           \* table ledger: sequence of entries in insertion order
  rowLock,          \* id -> process holding the row lock (0: none)
  req,              \* process -> state of the request it serves
  gateway,          \* payout gateway: calls and successes per withdrawal id
  seqno,            \* treasury wallet seqno (returned in the receipt)
  faults,           \* storage errors and crashes that may still be injected
  slots,            \* number of requests the run serves
  deposits,         \* table deposits: id -> row (status "absent": no row)
  depLock,          \* deposit id -> poller holding the row lock ("none")
  chain,            \* incoming transfers to the treasury, oldest first
  poller,           \* poller instance -> position in tick()
  conv,             \* an amount string on its way through the conversions
  clock,            \* Date.now(), in hours
  bonus_claims,     \* table bonus_claims: address -> row
  game_runs,        \* table game_runs: run id -> row
  referrals,        \* table referrals: user_address -> referrer_address
  referral_balances, \* table referral_balances: address -> row
  accrued,          \* address -> referral bonuses accrued to it so far
  usr               \* process -> state of the user request it serves

\* the state of the bonus, referral, refund and game handlers
userVars == <<clock, bonus_claims, game_runs, referrals, referral_balances, accrued, usr>>

vars == <<ADMIN_TOKEN, DISABLE_PAYOUTS, AUTO_PAYOUT_MAX_TON, withdrawals, ledger, rowLock, req, gateway, seqno, faults, slots,
          deposits, depLock, chain, poller, conv, userVars>>

NoRow == [status |-> "absent", address |-> "none", amount_nano |-> 0,
          decided |-> FALSE, note |-> <<"null">>]

NoResp == [ok |-> FALSE, status |-> "none", error |-> "none"]

IdleReq == [op |-> "none", pc |-> "idle", id |-> 0, address |-> "none",
            to |-> "", amountTon |-> Dec(0, <<>>), amountNano |-> 0,
            w |-> NoRow, at |-> "none", tx |-> 0, err |-> "none", resp |-> NoResp,
            sent |-> 0, appended |-> <<>>, writes |-> 0, client |-> "none"]

Entry(a, d, r, ref) == [address |-> a, delta_nano |-> d, reason |-> r, ref |-> ref]

\* ledger.ref of a withdrawal (genWithdrawId gives "w_..."), of a deposit
WRef(i) == <<"w", i>>
DRef(i) == <<"d", i>>

RECURSIVE SumDelta(_)
SumDelta(l) ==
  IF l = <<>> THEN 0
  ELSE l[Len(l)].delta_nano + SumDelta(SubSeq(l, 1, Len(l) - 1))

OfAddress(a) == LET k(e) == e.address = a IN SelectSeq(ledger, k)

\* SELECT COALESCE(SUM(delta_nano),0) FROM ledger WHERE address=$1
Balance(a) == SumDelta(OfAddress(a))

Respond(p, r) == [req EXCEPT ![p].pc = "done", ![p].resp = r]
Fail(p, msg) == Respond(p, [ok |-> FALSE, status |-> "none", error |-> msg])

\* a request slot is taken in order: slots are interchangeable
CanStart(p) == p <= slots /\ req[p].pc = "idle" /\ \A q \in 1..(p - 1) : req[q].pc # "idle"

NoDeposit == [status |-> "absent", address |-> "none", amount_nano |-> 0, tx_hash |-> 0]
Transfer(h, v) == [hash |-> h, nano |-> v]
IdleTick == [pc |-> "idle", pending |-> <<>>, txs |-> <<>>, k |-> 0,
             log |-> [id |-> 0, what |-> "none"]]

NoConv == [pc |-> "none"]

\* no row of bonus_claims / game_runs / referral_balances; lock: the process
\* whose open transaction holds the row lock (0: none)
NoBonusRow == [exists |-> FALSE, last_claim_at |-> 0, lock |-> 0]
NoRun == [status |-> "absent", address |-> "none", bet_nano |-> 0,
          score |-> 0, reward_nano |-> 0, lock |-> 0]
NoRefBalance == [exists |-> FALSE, pending_nano |-> 0, lock |-> 0]

NoUResp == [ok |-> FALSE, error |-> "none", nano |-> 0]

IdleUsr == [op |-> "none", pc |-> "idle", address |-> "none", now |-> 0,
            run |-> 0, score |-> 0, pending |-> 0, resp |-> NoUResp,
            appended |-> <<>>, accrual |-> 0]

\* no bonus, referral or game row and no user request
NoUserState ==
  /\ clock = 1
  /\ bonus_claims = [a \in Addrs |-> NoBonusRow]
  /\ game_runs = [g \in Runs |-> NoRun]
  /\ referrals = [a \in Addrs |-> "none"]
  /\ referral_balances = [a \in Addrs |-> NoRefBalance]
  /\ accrued = [a \in Addrs |-> 0]
  /\ usr = [p \in UProcs |-> IdleUsr]

\* A1 has one confirmed deposit; no withdrawal, no request
FundedTables ==
  /\ conv = NoConv
  /\ deposits = [d \in DepIds |->
        IF d = 1 THEN [status |-> "confirmed", address |-> "A1",
                       amount_nano |-> tonToNanoBig(InitialDeposit), tx_hash |-> 1]
        ELSE NoDeposit]
  /\ depLock = [d \in DepIds |-> "none"]
  /\ chain = <<Transfer(1, tonToNanoBig(InitialDeposit))>>
  /\ poller = [q \in Pollers |-> IdleTick]
  /\ DISABLE_PAYOUTS \in BOOLEAN
  /\ withdrawals = [i \in Ids |-> NoRow]
  /\ ledger = <<Entry("A1", tonToNanoBig(InitialDeposit), "deposit", DRef(1))>>
  /\ rowLock = [i \in Ids |-> 0]
  /\ req = [p \in Procs |-> IdleReq]
  /\ gateway = [i \in Ids |-> [calls |-> 0, ok |-> 0]]
  /\ seqno = 0

InitCommon == NoUserState /\ FundedTables /\ ADMIN_TOKEN = AdminSecret

Init == InitCommon /\ AUTO_PAYOUT_MAX_TON = Ceiling /\ faults = 0 /\ slots = MaxProcs

\* the row of a withdrawal is writable by p unless another transaction holds its lock
Writable(p, i) == rowLock[i] \in {0, p}

Ghost(r, entries, w) == [r EXCEPT !.appended = @ \o entries, !.writes = @ + w]

\* mutant of addLedger: an entry with the same ref is overwritten (an upsert
\* on ref) instead of a new entry being appended
addLedger_Upsert(a, d, r, ref) ==
  IF \E k \in 1..Len(ledger) : ledger[k].ref = ref
  THEN [k \in 1..Len(ledger) |->
          IF ledger[k].ref = ref THEN Entry(a, d, r, ref) ELSE ledger[k]]
  ELSE Append(ledger, Entry(a, d, r, ref))

\* db.js addLedger: one INSERT INTO ledger, committed on its own
addLedger(a, d, r, ref) == Append(ledger, Entry(a, d, r, ref))

\* mutant of mustAdmin: an unset ADMIN_TOKEN is not refused
mustAdmin_NoEmptyCheck(token) == token = ADMIN_TOKEN

\* mustAdmin passes: !(!ADMIN_TOKEN || token !== ADMIN_TOKEN)
mustAdmin(token) == ADMIN_TOKEN # "" /\ token = ADMIN_TOKEN

\* mutant of CreateRequest: no comparison with MIN_WITHDRAW_TON
CreateRequest_NoMinimum(p, sess, to, amt) ==
  /\ CanStart(p)
  /\ Cardinality({q \in Procs : req[q].op = "create"}) < MaxW
  /\ LET r == [IdleReq EXCEPT !.op = "create", !.address = sess, !.to = to,
                              !.amountTon = amt]
         bad(msg) == [IdleReq EXCEPT !.op = "create", !.pc = "done", !.resp.error = msg]
     IN req' = [req EXCEPT ![p] =
          IF sess = "none" THEN bad("no session")
          ELSE IF to = "" THEN bad("to required")
          ELSE IF ~IsFinite(amt) \/ NumLE(amt, Dec(0, <<>>)) THEN bad("bad amount")
          ELSE [r EXCEPT !.pc = "c_balance", !.amountNano = tonToNanoBig(amt)]]
  /\ UNCHANGED <<ADMIN_TOKEN, DISABLE_PAYOUTS, AUTO_PAYOUT_MAX_TON, withdrawals, ledger, rowLock, gateway, seqno, faults, slots, deposits, depLock, chain, poller, conv, userVars>>

\* ------------------------------------------- POST /api/withdraw/request
CreateRequest(p, sess, to, amt) ==
  /\ CanStart(p)
  /\ Cardinality({q \in Procs : req[q].op = "create"}) < MaxW
  /\ LET r == [IdleReq EXCEPT !.op = "create", !.address = sess, !.to = to,
                              !.amountTon = amt]
         bad(msg) == [IdleReq EXCEPT !.op = "create", !.pc = "done", !.resp.error = msg]
     IN req' = [req EXCEPT ![p] =
          IF sess = "none" THEN bad("no session")
          ELSE IF to = "" THEN bad("to required")
          ELSE IF ~IsFinite(amt) \/ NumLE(amt, Dec(0, <<>>)) THEN bad("bad amount")
          ELSE IF NumLT(amt, MIN_WITHDRAW_TON) THEN bad("min withdraw")
          ELSE [r EXCEPT !.pc = "c_balance", !.amountNano = tonToNanoBig(amt)]]
  /\ UNCHANGED <<ADMIN_TOKEN, DISABLE_PAYOUTS, AUTO_PAYOUT_MAX_TON, withdrawals, ledger, rowLock, gateway, seqno, faults, slots, deposits, depLock, chain, poller, conv, userVars>>

\* mutant of CreateReadBalance: the balance is read but not compared
CreateReadBalance_NoCheck(p) ==
  /\ req[p].pc = "c_balance"
  /\ req' = [req EXCEPT ![p].pc = "c_commit", ![p].client = "in transaction"]
  /\ UNCHANGED <<ADMIN_TOKEN, DISABLE_PAYOUTS, AUTO_PAYOUT_MAX_TON, withdrawals, ledger, rowLock, gateway, seqno, faults, slots, deposits, depLock, chain, poller, conv, userVars>>

\* BEGIN; SELECT SUM(delta_nano) ...; throws (and rolls back) when bal < amountNano
CreateReadBalance(p) ==
  /\ req[p].pc = "c_balance"
  /\ req' = IF Balance(req[p].address) < req[p].amountNano
            THEN Fail(p, "insufficient funds")
            ELSE [req EXCEPT ![p].pc = "c_commit", ![p].client = "in transaction"]
  /\ UNCHANGED <<ADMIN_TOKEN, DISABLE_PAYOUTS, AUTO_PAYOUT_MAX_TON, withdrawals, ledger, rowLock, gateway, seqno, faults, slots, deposits, depLock, chain, poller, conv, userVars>>

FreshId == CHOOSE i \in Ids :
             /\ withdrawals[i].status = "absent"
             /\ \A j \in 1..(i - 1) : withdrawals[j].status # "absent"

\* mutant of InitialStatus: strict comparison with the ceiling
InitialStatus_Strict(amt) == IF NumLT(amt, AUTO_PAYOUT_MAX_TON) THEN "processing" ELSE "pending"

\* mutant of InitialStatus: a ceiling of 0 is read as "no ceiling"
InitialStatus_ZeroUnlimited(amt) ==
  IF tonToNanoBig(AUTO_PAYOUT_MAX_TON) = 0 \/ NumLE(amt, AUTO_PAYOUT_MAX_TON)
  THEN "processing" ELSE "pending"

InitialStatus(amt) == IF NumLE(amt, AUTO_PAYOUT_MAX_TON) THEN "processing" ELSE "pending"

\* INSERT INTO withdrawals; INSERT INTO ledger (withdraw_hold); COMMIT
CreateCommit(p) ==
  /\ req[p].pc = "c_commit"
  /\ LET id == FreshId
         r == req[p]
         hold == Entry(r.address, 0 - r.amountNano, "withdraw_hold", WRef(id))
         auto == NumLE(r.amountTon, AUTO_PAYOUT_MAX_TON)
         r1 == Ghost([r EXCEPT !.id = id, !.client = "none"], <<hold>>, 1)
     IN /\ withdrawals' = [withdrawals EXCEPT ![id] =
              [status |-> InitialStatus(r.amountTon), address |-> r.address,
               amount_nano |-> r.amountNano, decided |-> FALSE, note |-> <<"null">>]]
        /\ ledger' = Append(ledger, hold)
        /\ req' = [req EXCEPT ![p] =
              IF auto THEN [r1 EXCEPT !.pc = IF DISABLE_PAYOUTS THEN "c_dryrun" ELSE "c_send"]
              ELSE [r1 EXCEPT !.pc = "done",
                              !.resp = [ok |-> TRUE, status |-> "pending", error |-> "none"]]]
  /\ UNCHANGED <<ADMIN_TOKEN, DISABLE_PAYOUTS, AUTO_PAYOUT_MAX_TON, rowLock, gateway, seqno, faults, slots, deposits, depLock, chain, poller, conv, userVars>>

\* mutant of CreateDryRun: the UPDATE writes the note only (as the dry-run
\* approve does) and the row stays 'processing'
CreateDryRun_NoteOnly(p) ==
  /\ req[p].pc = "c_dryrun"
  /\ Writable(p, req[p].id)
  /\ withdrawals' = [withdrawals EXCEPT ![req[p].id].note = <<"DISABLE_PAYOUTS=1 (dry-run)">>]
  /\ req' = [req EXCEPT ![p] = [Ghost(@, <<>>, 1) EXCEPT !.pc = "done",
                !.resp = [ok |-> TRUE, status |-> "pending", error |-> "none"]]]
  /\ UNCHANGED <<ADMIN_TOKEN, DISABLE_PAYOUTS, AUTO_PAYOUT_MAX_TON, ledger, rowLock, gateway, seqno, faults, slots, deposits, depLock, chain, poller, conv, userVars>>

\* DISABLE_PAYOUTS: UPDATE withdrawals SET status='pending', note=... ; respond
CreateDryRun(p) ==
  /\ req[p].pc = "c_dryrun"
  /\ Writable(p, req[p].id)
  /\ withdrawals' = [withdrawals EXCEPT ![req[p].id].status = "pending",
                                        ![req[p].id].note = <<"DISABLE_PAYOUTS=1 (dry-run)">>]
  /\ req' = [req EXCEPT ![p] = [Ghost(@, <<>>, 1) EXCEPT !.pc = "done",
                !.resp = [ok |-> TRUE, status |-> "pending", error |-> "none"]]]
  /\ UNCHANGED <<ADMIN_TOKEN, DISABLE_PAYOUTS, AUTO_PAYOUT_MAX_TON, ledger, rowLock, gateway, seqno, faults, slots, deposits, depLock, chain, poller, conv, userVars>>

\* sendTon is entered (comment withdraw:<id>): no transaction is open
SendTonCall(p, from, to) ==
  /\ req[p].pc = from
  /\ gateway' = [gateway EXCEPT ![req[p].id].calls = @ + 1]
  /\ req' = [req EXCEPT ![p].pc = to, ![p].sent = @ + 1]
  /\ UNCHANGED <<ADMIN_TOKEN, DISABLE_PAYOUTS, AUTO_PAYOUT_MAX_TON, withdrawals, ledger, rowLock, seqno, faults, slots, deposits, depLock, chain, poller, conv, userVars>>

CreateSendTon(p) == SendTonCall(p, "c_send", "c_gw")

\* payout.js sendTon returns the receipt {seqno_before, ...}
SendTonOk(p) ==
  /\ req[p].pc \in {"c_gw", "a_gw"}
  /\ gateway' = [gateway EXCEPT ![req[p].id].ok = @ + 1]
  /\ seqno' = seqno + 1
  /\ req' = [req EXCEPT ![p].pc = IF req[p].pc = "c_gw" THEN "c_paid" ELSE "a_paid",
                        ![p].tx = seqno]
  /\ UNCHANGED <<ADMIN_TOKEN, DISABLE_PAYOUTS, AUTO_PAYOUT_MAX_TON, withdrawals, ledger, rowLock, faults, slots, deposits, depLock, chain, poller, conv, userVars>>

\* payout.js sendTon throws
SendTonFail(p) ==
  /\ req[p].pc \in {"c_gw", "a_gw"}
  /\ req' = [req EXCEPT ![p].pc = IF req[p].pc = "c_gw" THEN "c_release" ELSE "a_release",
                        ![p].err = "payout error"]
  /\ UNCHANGED <<ADMIN_TOKEN, DISABLE_PAYOUTS, AUTO_PAYOUT_MAX_TON, withdrawals, ledger, rowLock, gateway, seqno, faults, slots, deposits, depLock, chain, poller, conv, userVars>>

\* UPDATE withdrawals SET status='paid', decided_at, note='tx=...' WHERE id
MarkPaid(p, from, resp) ==
  /\ req[p].pc = from
  /\ Writable(p, req[p].id)
  /\ withdrawals' = [withdrawals EXCEPT ![req[p].id].status = "paid",
                                        ![req[p].id].decided = TRUE,
                                        ![req[p].id].note = <<"tx", req[p].tx>>]
  /\ req' = [req EXCEPT ![p] = [Ghost(@, <<>>, 1) EXCEPT !.pc = "done", !.resp = resp]]
  /\ UNCHANGED <<ADMIN_TOKEN, DISABLE_PAYOUTS, AUTO_PAYOUT_MAX_TON, ledger, rowLock, gateway, seqno, faults, slots, deposits, depLock, chain, poller, conv, userVars>>

\* mutant of CreateMarkPaid: the UPDATE sets the status and leaves note alone
CreateMarkPaid_NoReceipt(p) ==
  /\ req[p].pc = "c_paid"
  /\ Writable(p, req[p].id)
  /\ withdrawals' = [withdrawals EXCEPT ![req[p].id].status = "paid",
                                        ![req[p].id].decided = TRUE]
  /\ req' = [req EXCEPT ![p] = [Ghost(@, <<>>, 1) EXCEPT !.pc = "done",
                !.resp = [ok |-> TRUE, status |-> "paid", error |-> "none"]]]
  /\ UNCHANGED <<ADMIN_TOKEN, DISABLE_PAYOUTS, AUTO_PAYOUT_MAX_TON, ledger, rowLock, gateway, seqno, faults, slots, deposits, depLock, chain, poller, conv, userVars>>

CreateMarkPaid(p) ==
  MarkPaid(p, "c_paid", [ok |-> TRUE, status |-> "paid", error |-> "none"])

\* mutant of CreateRelease: the catch marks the withdrawal failed without
\* giving the hold back
CreateRelease_NoLedger(p) ==
  /\ req[p].pc = "c_release"
  /\ req' = [req EXCEPT ![p].pc = "c_failed"]
  /\ UNCHANGED <<ADMIN_TOKEN, DISABLE_PAYOUTS, AUTO_PAYOUT_MAX_TON, withdrawals, ledger, rowLock, gateway, seqno, faults, slots, deposits, depLock, chain, poller, conv, userVars>>

\* catch: addLedger(s.address, amountNano, 'withdraw_release', id)
CreateRelease(p) ==
  /\ req[p].pc = "c_release"
  /\ LET e == Entry(req[p].address, req[p].amountNano, "withdraw_release", WRef(req[p].id))
     IN /\ ledger' = addLedger(e.address, e.delta_nano, e.reason, e.ref)
        /\ req' = [req EXCEPT ![p] = [Ghost(@, <<e>>, 0) EXCEPT !.pc = "c_failed"]]
  /\ UNCHANGED <<ADMIN_TOKEN, DISABLE_PAYOUTS, AUTO_PAYOUT_MAX_TON, withdrawals, rowLock, gateway, seqno, faults, slots, deposits, depLock, chain, poller, conv, userVars>>

\* UPDATE withdrawals SET status='failed', decided_at, note='error=...' WHERE id
MarkFailed(p, from, id, resp) ==
  /\ req[p].pc = from
  /\ Writable(p, id)
  /\ withdrawals' = [withdrawals EXCEPT ![id].status = "failed",
                                        ![id].decided = TRUE,
                                        ![id].note = <<"error", req[p].err>>]
  /\ req' = [req EXCEPT ![p] = [Ghost(@, <<>>, 1) EXCEPT !.pc = "done", !.resp = resp]]
  /\ UNCHANGED <<ADMIN_TOKEN, DISABLE_PAYOUTS, AUTO_PAYOUT_MAX_TON, ledger, rowLock, gateway, seqno, faults, slots, deposits, depLock, chain, poller, conv, userVars>>

CreateMarkFailed(p) ==
  MarkFailed(p, "c_failed", req[p].id,
             [ok |-> FALSE, status |-> "failed", error |-> req[p].err])

\* ------------------------------------- POST /api/admin/withdraw/approve
ApproveRequest(p, token, id) ==
  /\ CanStart(p)
  /\ LET r == [IdleReq EXCEPT !.op = "approve", !.id = id, !.at = withdrawals[id].status]
     IN req' = [req EXCEPT ![p] =
          IF ~mustAdmin(token)
          THEN [IdleReq EXCEPT !.op = "approve", !.pc = "done", !.resp.error = "Unauthorized"]
          ELSE [r EXCEPT !.pc = IF DISABLE_PAYOUTS THEN "a_dryrun" ELSE "a_lock"]]
  /\ UNCHANGED <<ADMIN_TOKEN, DISABLE_PAYOUTS, AUTO_PAYOUT_MAX_TON, withdrawals, ledger, rowLock, gateway, seqno, faults, slots, deposits, depLock, chain, poller, conv, userVars>>

\* DISABLE_PAYOUTS: UPDATE withdrawals SET note='dry-run approve' WHERE id; respond
ApproveDryRun(p) ==
  /\ req[p].pc = "a_dryrun"
  /\ Writable(p, req[p].id)
  /\ LET id == req[p].id
         hit == withdrawals[id].status # "absent"
     IN /\ withdrawals' = IF hit
                          THEN [withdrawals EXCEPT ![id].note = <<"dry-run approve">>]
                          ELSE withdrawals
        /\ req' = [req EXCEPT ![p] =
              [Ghost(@, <<>>, IF hit THEN 1 ELSE 0) EXCEPT !.pc = "done",
                 !.resp = [ok |-> TRUE, status |-> "pending", error |-> "none"]]]
  /\ UNCHANGED <<ADMIN_TOKEN, DISABLE_PAYOUTS, AUTO_PAYOUT_MAX_TON, ledger, rowLock, gateway, seqno, faults, slots, deposits, depLock, chain, poller, conv, userVars>>

\* mutant of ApproveLock: the row is read without FOR UPDATE (as reject reads it)
ApproveLock_NoRowLock(p) ==
  /\ req[p].pc = "a_lock"
  /\ LET row == withdrawals[req[p].id]
     IN req' = IF row.status = "absent" THEN Fail(p, "not found")
               ELSE IF row.status # "pending"
                    THEN [Fail(p, "bad status") EXCEPT ![p].w = row]
               ELSE [req EXCEPT ![p].w = row, ![p].pc = "a_commit",
                                      ![p].client = "in transaction"]
  /\ UNCHANGED <<ADMIN_TOKEN, DISABLE_PAYOUTS, AUTO_PAYOUT_MAX_TON, withdrawals, ledger, rowLock, gateway, seqno, faults, slots, deposits, depLock, chain, poller, conv, userVars>>

\* mutant of ApproveLock: the status check of the earlier approve, which also
\* lets a 'processing' withdrawal through
ApproveLock_OldStatusCheck(p) ==
  /\ req[p].pc = "a_lock"
  /\ LET id == req[p].id
         row == withdrawals[id]
     IN /\ rowLock[id] = 0
        /\ IF row.status = "absent"
           THEN /\ req' = Fail(p, "not found")
                /\ UNCHANGED rowLock
           ELSE IF row.status \notin {"pending", "processing"}
           THEN /\ req' = [Fail(p, "bad status") EXCEPT ![p].w = row]
                /\ UNCHANGED rowLock
           ELSE /\ req' = [req EXCEPT ![p].w = row, ![p].pc = "a_commit",
                                      ![p].client = "in transaction"]
                /\ rowLock' = [rowLock EXCEPT ![id] = p]
  /\ UNCHANGED <<ADMIN_TOKEN, DISABLE_PAYOUTS, AUTO_PAYOUT_MAX_TON, withdrawals, ledger, gateway, seqno, faults, slots, deposits, depLock, chain, poller, conv, userVars>>

\* Transaction #1: BEGIN; SELECT ... FOR UPDATE; status check (a throw rolls back)
ApproveLock(p) ==
  /\ req[p].pc = "a_lock"
  /\ LET id == req[p].id
         row == withdrawals[id]
     IN /\ rowLock[id] = 0
        /\ IF row.status = "absent"
           THEN /\ req' = Fail(p, "not found")
                /\ UNCHANGED rowLock
           ELSE IF row.status # "pending"
           THEN /\ req' = [Fail(p, "bad status") EXCEPT ![p].w = row]
                /\ UNCHANGED rowLock
           ELSE /\ req' = [req EXCEPT ![p].w = row, ![p].pc = "a_commit",
                                      ![p].client = "in transaction"]
                /\ rowLock' = [rowLock EXCEPT ![id] = p]
  /\ UNCHANGED <<ADMIN_TOKEN, DISABLE_PAYOUTS, AUTO_PAYOUT_MAX_TON, withdrawals, ledger, gateway, seqno, faults, slots, deposits, depLock, chain, poller, conv, userVars>>

\* mutant of ApproveCommit: the transaction commits without the UPDATE to
\* 'processing' (the earlier approve had no such step)
ApproveCommit_NoProcessing(p) ==
  /\ req[p].pc = "a_commit"
  /\ rowLock' = [rowLock EXCEPT ![req[p].id] = 0]
  /\ req' = [req EXCEPT ![p] = [Ghost(@, <<>>, 1) EXCEPT !.pc = "a_send", !.client = "none"]]
  /\ UNCHANGED <<ADMIN_TOKEN, DISABLE_PAYOUTS, AUTO_PAYOUT_MAX_TON, withdrawals, ledger, gateway, seqno, faults, slots, deposits, depLock, chain, poller, conv, userVars>>

\* mutant of ApproveCommit: the UPDATE runs but the transaction stays open
\* across the payout (sendTon inside the lock transaction)
ApproveCommit_KeepTransaction(p) ==
  /\ req[p].pc = "a_commit"
  /\ withdrawals' = [withdrawals EXCEPT ![req[p].id].status = "processing"]
  /\ req' = [req EXCEPT ![p] = [Ghost(@, <<>>, 1) EXCEPT !.pc = "a_send"]]
  /\ UNCHANGED <<ADMIN_TOKEN, DISABLE_PAYOUTS, AUTO_PAYOUT_MAX_TON, ledger, rowLock, gateway, seqno, faults, slots, deposits, depLock, chain, poller, conv, userVars>>

\* UPDATE withdrawals SET status='processing'; COMMIT; client.release()
ApproveCommit(p) ==
  /\ req[p].pc = "a_commit"
  /\ withdrawals' = [withdrawals EXCEPT ![req[p].id].status = "processing"]
  /\ rowLock' = [rowLock EXCEPT ![req[p].id] = 0]
  /\ req' = [req EXCEPT ![p] = [Ghost(@, <<>>, 1) EXCEPT !.pc = "a_send", !.client = "none"]]
  /\ UNCHANGED <<ADMIN_TOKEN, DISABLE_PAYOUTS, AUTO_PAYOUT_MAX_TON, ledger, gateway, seqno, faults, slots, deposits, depLock, chain, poller, conv, userVars>>

ApproveSendTon(p) == SendTonCall(p, "a_send", "a_gw")

\* Transaction #2
ApproveMarkPaid(p) ==
  MarkPaid(p, "a_paid", [ok |-> TRUE, status |-> "paid", error |-> "none"])

\* catch (msg is neither 'bad status' nor 'not found', w set): addLedger(w.address, ...)
ApproveRelease(p) ==
  /\ req[p].pc = "a_release"
  /\ LET w == req[p].w
         e == Entry(w.address, w.amount_nano, "withdraw_release", WRef(req[p].id))
     IN /\ ledger' = addLedger(e.address, e.delta_nano, e.reason, e.ref)
        /\ req' = [req EXCEPT ![p] = [Ghost(@, <<e>>, 0) EXCEPT !.pc = "a_failed"]]
  /\ UNCHANGED <<ADMIN_TOKEN, DISABLE_PAYOUTS, AUTO_PAYOUT_MAX_TON, withdrawals, rowLock, gateway, seqno, faults, slots, deposits, depLock, chain, poller, conv, userVars>>

\* catch: UPDATE ... status='failed'; then res.status(400).json({ok:false, error: msg})
ApproveMarkFailed(p) ==
  MarkFailed(p, "a_failed", req[p].id,
             [ok |-> FALSE, status |-> "none", error |-> req[p].err])

\* -------------------------------------- POST /api/admin/withdraw/reject
RejectRequest(p, token, id) ==
  /\ CanStart(p)
  /\ LET r == [IdleReq EXCEPT !.op = "reject", !.id = id, !.at = withdrawals[id].status]
     IN req' = [req EXCEPT ![p] =
          IF ~mustAdmin(token)
          THEN [IdleReq EXCEPT !.op = "reject", !.pc = "done", !.resp.error = "Unauthorized"]
          ELSE [r EXCEPT !.pc = "r_select"]]
  /\ UNCHANGED <<ADMIN_TOKEN, DISABLE_PAYOUTS, AUTO_PAYOUT_MAX_TON, withdrawals, ledger, rowLock, gateway, seqno, faults, slots, deposits, depLock, chain, poller, conv, userVars>>

\* mutant of RejectSelect: the status check of the earlier reject, which also
\* lets a 'processing' withdrawal through
RejectSelect_OldStatusCheck(p) ==
  /\ req[p].pc = "r_select"
  /\ LET row == withdrawals[req[p].id]
     IN req' = IF row.status = "absent" THEN Fail(p, "not found")
               ELSE IF row.status \notin {"pending", "processing"}
                    THEN [Fail(p, "bad status") EXCEPT ![p].w = row]
               ELSE [req EXCEPT ![p].w = row, ![p].pc = "r_release"]
  /\ UNCHANGED <<ADMIN_TOKEN, DISABLE_PAYOUTS, AUTO_PAYOUT_MAX_TON, withdrawals, ledger, rowLock, gateway, seqno, faults, slots, deposits, depLock, chain, poller, conv, userVars>>

\* SELECT * FROM withdrawals WHERE id (no lock); status check
RejectSelect(p) ==
  /\ req[p].pc = "r_select"
  /\ LET row == withdrawals[req[p].id]
     IN req' = IF row.status = "absent" THEN Fail(p, "not found")
               ELSE IF row.status # "pending"
                    THEN [Fail(p, "bad status") EXCEPT ![p].w = row]
               ELSE [req EXCEPT ![p].w = row, ![p].pc = "r_release"]
  /\ UNCHANGED <<ADMIN_TOKEN, DISABLE_PAYOUTS, AUTO_PAYOUT_MAX_TON, withdrawals, ledger, rowLock, gateway, seqno, faults, slots, deposits, depLock, chain, poller, conv, userVars>>

\* mutant of RejectRelease: the release is credited to another address than
\* the withdrawal's
RejectRelease_OtherAddress(p) ==
  /\ req[p].pc = "r_release"
  /\ LET w == req[p].w
         other == CHOOSE a \in Addrs : a # w.address
         e == Entry(other, w.amount_nano, "withdraw_reject_release", WRef(req[p].id))
     IN /\ ledger' = addLedger(e.address, e.delta_nano, e.reason, e.ref)
        /\ req' = [req EXCEPT ![p] = [Ghost(@, <<e>>, 0) EXCEPT !.pc = "r_update"]]
  /\ UNCHANGED <<ADMIN_TOKEN, DISABLE_PAYOUTS, AUTO_PAYOUT_MAX_TON, withdrawals, rowLock, gateway, seqno, faults, slots, deposits, depLock, chain, poller, conv, userVars>>

\* addLedger(w.address, BigInt(w.amount_nano), 'withdraw_reject_release', id)
RejectRelease(p) ==
  /\ req[p].pc = "r_release"
  /\ LET w == req[p].w
         e == Entry(w.address, w.amount_nano, "withdraw_reject_release", WRef(req[p].id))
     IN /\ ledger' = addLedger(e.address, e.delta_nano, e.reason, e.ref)
        /\ req' = [req EXCEPT ![p] = [Ghost(@, <<e>>, 0) EXCEPT !.pc = "r_update"]]
  /\ UNCHANGED <<ADMIN_TOKEN, DISABLE_PAYOUTS, AUTO_PAYOUT_MAX_TON, withdrawals, rowLock, gateway, seqno, faults, slots, deposits, depLock, chain, poller, conv, userVars>>

\* UPDATE withdrawals SET status='rejected', decided_at, note='rejected by admin'
RejectMarkRejected(p) ==
  /\ req[p].pc = "r_update"
  /\ Writable(p, req[p].id)
  /\ withdrawals' = [withdrawals EXCEPT ![req[p].id].status = "rejected",
                                        ![req[p].id].decided = TRUE,
                                        ![req[p].id].note = <<"rejected by admin">>]
  /\ req' = [req EXCEPT ![p] = [Ghost(@, <<>>, 1) EXCEPT !.pc = "done",
                !.resp = [ok |-> TRUE, status |-> "rejected", error |-> "none"]]]
  /\ UNCHANGED <<ADMIN_TOKEN, DISABLE_PAYOUTS, AUTO_PAYOUT_MAX_TON, ledger, rowLock, gateway, seqno, faults, slots, deposits, depLock, chain, poller, conv, userVars>>

\* ------------------------------------------------------------ specification
Next ==
  \/ \E p \in Procs, sess \in Sessions, to \in Destinations, amt \in AmountInputs :
        CreateRequest(p, sess, to, amt)
  \/ \E p \in Procs : CreateReadBalance(p)
  \/ \E p \in Procs : CreateCommit(p)
  \/ \E p \in Procs : CreateDryRun(p)
  \/ \E p \in Procs : CreateSendTon(p)
  \/ \E p \in Procs : SendTonOk(p)
  \/ \E p \in Procs : SendTonFail(p)
  \/ \E p \in Procs : CreateMarkPaid(p)
  \/ \E p \in Procs : CreateRelease(p)
  \/ \E p \in Procs : CreateMarkFailed(p)
  \/ \E p \in Procs, token \in Tokens, id \in Ids : ApproveRequest(p, token, id)
  \/ \E p \in Procs : ApproveDryRun(p)
  \/ \E p \in Procs : ApproveLock(p)
  \/ \E p \in Procs : ApproveCommit(p)
  \/ \E p \in Procs : ApproveSendTon(p)
  \/ \E p \in Procs : ApproveMarkPaid(p)
  \/ \E p \in Procs : ApproveRelease(p)
  \/ \E p \in Procs : ApproveMarkFailed(p)
  \/ \E p \in Procs, token \in Tokens, id \in Ids : RejectRequest(p, token, id)
  \/ \E p \in Procs : RejectSelect(p)
  \/ \E p \in Procs : RejectRelease(p)
  \/ \E p \in Procs : RejectMarkRejected(p)

Spec == Init /\ [][Next]_vars

\* ------------------------------------------------- storage errors, crashes
\* A statement of the handler throws (connection lost, statement error) or the
\* server process dies; at most MaxFaults of these happen in a run, which
\* serves MaxFaultProcs requests.
InitFault ==
  InitCommon /\ AUTO_PAYOUT_MAX_TON = Ceiling /\ faults = MaxFaults /\ slots = MaxFaultProcs

Inject == faults > 0 /\ faults' = faults - 1

\* the UPDATE ... status='paid' throws after sendTon returned: create's inner
\* catch and approve's outer catch (w set, msg not 'bad status') both release
MarkPaidStorageError(p) ==
  /\ Inject
  /\ req[p].pc \in {"c_paid", "a_paid"}
  /\ req' = [req EXCEPT ![p].pc = IF req[p].pc = "c_paid" THEN "c_release" ELSE "a_release",
                        ![p].err = "storage error"]
  /\ UNCHANGED <<ADMIN_TOKEN, DISABLE_PAYOUTS, AUTO_PAYOUT_MAX_TON, withdrawals, ledger, rowLock, gateway, seqno, slots, deposits, depLock, chain, poller, conv, userVars>>

\* mutant of CreateTxStorageError: the INSERT of the row was autocommitted
\* before the INSERT of the hold threw (no transaction around the two)
CreateTxStorageError_NoRollback(p) ==
  /\ Inject
  /\ req[p].pc = "c_commit"
  /\ withdrawals' = [withdrawals EXCEPT ![FreshId] =
        [status |-> InitialStatus(req[p].amountTon), address |-> req[p].address,
         amount_nano |-> req[p].amountNano, decided |-> FALSE, note |-> <<"null">>]]
  /\ req' = [Fail(p, "storage error") EXCEPT ![p].client = "none"]
  /\ UNCHANGED <<ADMIN_TOKEN, DISABLE_PAYOUTS, AUTO_PAYOUT_MAX_TON, ledger, rowLock, gateway, seqno, slots, deposits, depLock, chain, poller, conv, userVars>>

\* create's INSERTs or COMMIT throw: ROLLBACK, rethrow, respond with the error
CreateTxStorageError(p) ==
  /\ Inject
  /\ req[p].pc = "c_commit"
  /\ req' = [Fail(p, "storage error") EXCEPT ![p].client = "none"]
  /\ UNCHANGED <<ADMIN_TOKEN, DISABLE_PAYOUTS, AUTO_PAYOUT_MAX_TON, withdrawals, ledger, rowLock, gateway, seqno, slots, deposits, depLock, chain, poller, conv, userVars>>

\* approve's UPDATE ... 'processing' or COMMIT throws: ROLLBACK, rethrow to the
\* outer catch with w already assigned
ApproveTxStorageError(p) ==
  /\ Inject
  /\ req[p].pc = "a_commit"
  /\ rowLock' = [rowLock EXCEPT ![req[p].id] = 0]
  /\ req' = [req EXCEPT ![p].pc = "a_release", ![p].err = "storage error",
                        ![p].client = "none"]
  /\ UNCHANGED <<ADMIN_TOKEN, DISABLE_PAYOUTS, AUTO_PAYOUT_MAX_TON, withdrawals, ledger, gateway, seqno, slots, deposits, depLock, chain, poller, conv, userVars>>

\* addLedger throws: approve swallows it ("ignore secondary failures") and
\* responds with the first error; create and reject respond with this one
ReleaseStorageError(p) ==
  /\ Inject
  /\ req[p].pc \in {"c_release", "a_release", "r_release"}
  /\ req' = Fail(p, IF req[p].pc = "a_release" THEN req[p].err ELSE "storage error")
  /\ UNCHANGED <<ADMIN_TOKEN, DISABLE_PAYOUTS, AUTO_PAYOUT_MAX_TON, withdrawals, ledger, rowLock, gateway, seqno, slots, deposits, depLock, chain, poller, conv, userVars>>

\* the UPDATE that follows a release (or the dry-run UPDATE) throws
FinalizeStorageError(p) ==
  /\ Inject
  /\ req[p].pc \in {"c_failed", "a_failed", "r_update", "c_dryrun", "a_dryrun"}
  /\ req' = Fail(p, IF req[p].pc = "a_failed" THEN req[p].err ELSE "storage error")
  /\ UNCHANGED <<ADMIN_TOKEN, DISABLE_PAYOUTS, AUTO_PAYOUT_MAX_TON, withdrawals, ledger, rowLock, gateway, seqno, slots, deposits, depLock, chain, poller, conv, userVars>>

\* the server process dies while serving p: an open transaction is rolled back
Crash(p) ==
  /\ Inject
  /\ req[p].pc \notin {"idle", "done", "crashed"}
  /\ rowLock' = [i \in Ids |-> IF rowLock[i] = p THEN 0 ELSE rowLock[i]]
  /\ req' = [req EXCEPT ![p].pc = "crashed", ![p].client = "none"]
  /\ UNCHANGED <<ADMIN_TOKEN, DISABLE_PAYOUTS, AUTO_PAYOUT_MAX_TON, withdrawals, ledger, gateway, seqno, slots, deposits, depLock, chain, poller, conv, userVars>>

NextFault ==
  \/ Next
  \/ \E p \in Procs : MarkPaidStorageError(p)
  \/ \E p \in Procs : CreateTxStorageError(p)
  \/ \E p \in Procs : ApproveTxStorageError(p)
  \/ \E p \in Procs : ReleaseStorageError(p)
  \/ \E p \in Procs : FinalizeStorageError(p)
  \/ \E p \in Procs : Crash(p)

\* what the event loop runs for a request that has been accepted
Step(p) ==
  \/ CreateReadBalance(p) \/ CreateCommit(p) \/ CreateDryRun(p) \/ CreateSendTon(p)
  \/ SendTonOk(p) \/ SendTonFail(p)
  \/ CreateMarkPaid(p) \/ CreateRelease(p) \/ CreateMarkFailed(p)
  \/ ApproveDryRun(p) \/ ApproveLock(p) \/ ApproveCommit(p) \/ ApproveSendTon(p)
  \/ ApproveMarkPaid(p) \/ ApproveRelease(p) \/ ApproveMarkFailed(p)
  \/ RejectSelect(p) \/ RejectRelease(p) \/ RejectMarkRejected(p)

\* every accepted request keeps running (and every gateway call returns)
\* unless the server dies
SpecFaultFair == InitFault /\ [][NextFault]_vars /\ \A p \in Procs : WF_vars(Step(p))

SpecFault == InitFault /\ [][NextFault]_vars


\* ------------------------------------------------ configured ceilings
\* AUTO_PAYOUT_MAX_TON as deployed: unset ('0', manual only) or set
Ceilings == {Dec(0, <<>>), Ceiling}

\* amounts with more than nine fractional digits: 0.2000000001, 0.09999999999
LongAmounts == {Dec(0, <<2, 0, 0, 0, 0, 0, 0, 0, 0, 1>>),
                Dec(0, <<0, 9, 9, 9, 9, 9, 9, 9, 9, 9, 9>>)}

\* the server starts with either ceiling and serves two requests
InitConfig ==
  InitCommon /\ AUTO_PAYOUT_MAX_TON \in Ceilings /\ faults = 0 /\ slots = MaxFaultProcs

NextConfig ==
  \/ Next
  \/ \E p \in Procs, sess \in Sessions, to \in Destinations, amt \in LongAmounts :
        CreateRequest(p, sess, to, amt)

SpecConfig == InitConfig /\ [][NextConfig]_vars

\* --------------------------------------------------- deposits and poller
MIN_DEPOSIT_TON == Dec(0, <<1>>)
\* the sessions that create deposits: one address, or no session
DepositSessions == {"A1", "none"}
DepositAmounts == {Dec(0, <<0, 5>>), Dec(0, <<1>>)}
\* dust = 1 + crypto.randomInt(9999): two of its values
Dusts == {1, 2}

\* an empty database and an idle server
EmptyTables ==
  /\ NoUserState
  /\ ADMIN_TOKEN = AdminSecret
  /\ DISABLE_PAYOUTS = FALSE
  /\ AUTO_PAYOUT_MAX_TON = Ceiling
  /\ withdrawals = [i \in Ids |-> NoRow]
  /\ ledger = <<>>
  /\ rowLock = [i \in Ids |-> 0]
  /\ req = [p \in Procs |-> IdleReq]
  /\ gateway = [i \in Ids |-> [calls |-> 0, ok |-> 0]]
  /\ seqno = 0
  /\ faults = 0
  /\ slots = 0
  /\ deposits = [d \in DepIds |-> NoDeposit]
  /\ depLock = [d \in DepIds |-> "none"]
  /\ chain = <<>>
  /\ poller = [q \in Pollers |-> IdleTick]

\* no request is served in this specification, only deposits are created,
\* paid and confirmed
InitDeposit == EmptyTables /\ conv = NoConv

FreshDeposit == CHOOSE d \in DepIds :
                  /\ deposits[d].status = "absent"
                  /\ \A e \in 1..(d - 1) : deposits[e].status # "absent"

\* POST /api/deposit/create: amountNano = tonToNanoBig(amount) + dust,
\* INSERT INTO deposits ... 'pending'; a refused request changes nothing
DepositCreate(sess, amt, dust) ==
  /\ sess # "none"
  /\ IsFinite(amt) /\ ~NumLE(amt, Dec(0, <<>>))
  /\ ~NumLT(amt, MIN_DEPOSIT_TON)
  /\ \E d \in DepIds : deposits[d].status = "absent"
  /\ deposits' = [deposits EXCEPT ![FreshDeposit] =
        [status |-> "pending", address |-> sess,
         amount_nano |-> tonToNanoBig(amt) + dust, tx_hash |-> 0]]
  /\ UNCHANGED <<ADMIN_TOKEN, DISABLE_PAYOUTS, AUTO_PAYOUT_MAX_TON, withdrawals, ledger, rowLock, req, gateway, seqno,
                 faults, slots, depLock, chain, poller, conv, userVars>>

\* somebody sends to the treasury the amount shown for a deposit
IncomingTransfer(v) ==
  /\ Len(chain) < MaxTx
  /\ \E d \in DepIds : deposits[d].status # "absent" /\ deposits[d].amount_nano = v
  /\ chain' = Append(chain, Transfer(Len(chain) + 1, v))
  /\ UNCHANGED <<ADMIN_TOKEN, DISABLE_PAYOUTS, AUTO_PAYOUT_MAX_TON, withdrawals, ledger, rowLock, req, gateway, seqno,
                 faults, slots, deposits, depLock, poller, conv, userVars>>

\* SELECT id,address,amount_nano FROM deposits WHERE status='pending'
\* ORDER BY created_at
RECURSIVE PendingFrom(_)
PendingFrom(d) ==
  IF d > MaxD THEN <<>>
  ELSE (IF deposits[d].status = "pending"
        THEN <<[id |-> d, address |-> deposits[d].address,
                amount_nano |-> deposits[d].amount_nano]>>
        ELSE <<>>) \o PendingFrom(d + 1)

\* the account's transactions as TonAPI lists them: most recent first
scanIncomingTreasury == [i \in 1..Len(chain) |-> chain[Len(chain) + 1 - i]]

\* txs.find(tx => extractIncomingNano(tx) === want): index of the first
\* match, 0 when there is none
Match(txs, want) ==
  IF \E i \in 1..Len(txs) : txs[i].nano = want
  THEN CHOOSE i \in 1..Len(txs) :
         /\ txs[i].nano = want
         /\ \A j \in 1..(i - 1) : txs[j].nano # want
  ELSE 0

\* tick(): the SELECT of the pending deposits; returns when there are none
TickStart(q) ==
  /\ poller[q].pc = "idle"
  /\ PendingFrom(1) # <<>>
  /\ poller' = [poller EXCEPT ![q].pc = "scan", ![q].pending = PendingFrom(1)]
  /\ UNCHANGED <<ADMIN_TOKEN, DISABLE_PAYOUTS, AUTO_PAYOUT_MAX_TON, withdrawals, ledger, rowLock, req, gateway, seqno,
                 faults, slots, deposits, depLock, chain, conv, userVars>>

\* the for loop skips the deposits without a matching transaction
\* (if (!match) continue): index of the next deposit with a match from k on,
\* 0 when there is none
NextMatch(pending, txs, k) ==
  LET hit == {i \in k..Len(pending) : Match(txs, pending[i].amount_nano) # 0}
  IN IF hit = {} THEN 0 ELSE CHOOSE i \in hit : \A j \in hit : i <= j

\* const txs = await scanIncomingTreasury(80); the loop runs up to its first
\* deposit with a match, tick() returns when there is none
TickScan(q) ==
  /\ poller[q].pc = "scan"
  /\ LET txs == scanIncomingTreasury
         k == NextMatch(poller[q].pending, txs, 1)
     IN poller' = [poller EXCEPT ![q] =
          IF k = 0 THEN [IdleTick EXCEPT !.log = poller[q].log]
          ELSE [@ EXCEPT !.pc = "each", !.txs = txs, !.k = k]]
  /\ UNCHANGED <<ADMIN_TOKEN, DISABLE_PAYOUTS, AUTO_PAYOUT_MAX_TON, withdrawals, ledger, rowLock, req, gateway, seqno,
                 faults, slots, deposits, depLock, chain, conv, userVars>>

\* the for loop goes to its next deposit with a match, or tick() returns
Continue(r, what) ==
  LET log == [id |-> r.pending[r.k].id, what |-> what]
      k == NextMatch(r.pending, r.txs, r.k + 1)
  IN IF k = 0
     THEN [IdleTick EXCEPT !.log = log]
     ELSE [r EXCEPT !.pc = "each", !.k = k, !.log = log]

Current(q) == poller[q].pending[poller[q].k]

\* mutant of TickLock: the row is locked but its status is not looked at
TickLock_NoStatusCheck(q) ==
  /\ poller[q].pc = "each"
  /\ depLock[Current(q).id] = "none"
  /\ poller' = [poller EXCEPT ![q].pc = "confirm"]
  /\ depLock' = [depLock EXCEPT ![Current(q).id] = q]
  /\ UNCHANGED <<ADMIN_TOKEN, DISABLE_PAYOUTS, AUTO_PAYOUT_MAX_TON, withdrawals, ledger, rowLock, req, gateway, seqno,
                 faults, slots, deposits, chain, conv, userVars>>

\* BEGIN; SELECT status FROM deposits WHERE id=$1 FOR UPDATE (waits for the
\* lock); not pending any more: ROLLBACK; continue
TickLock(q) ==
  /\ poller[q].pc = "each"
  /\ depLock[Current(q).id] = "none"
  /\ IF deposits[Current(q).id].status # "pending"
     THEN /\ poller' = [poller EXCEPT ![q] = Continue(@, "not pending")]
          /\ UNCHANGED depLock
     ELSE /\ poller' = [poller EXCEPT ![q].pc = "confirm"]
          /\ depLock' = [depLock EXCEPT ![Current(q).id] = q]
  /\ UNCHANGED <<ADMIN_TOKEN, DISABLE_PAYOUTS, AUTO_PAYOUT_MAX_TON, withdrawals, ledger, rowLock, req, gateway, seqno,
                 faults, slots, deposits, chain, conv, userVars>>

\* UPDATE deposits SET status='confirmed', tx_hash; INSERT INTO ledger
\* (address, want, 'deposit', d.id); COMMIT
TickConfirm(q) ==
  /\ poller[q].pc = "confirm"
  /\ LET d == Current(q)
         m == Match(poller[q].txs, d.amount_nano)
     IN /\ deposits' = [deposits EXCEPT ![d.id].status = "confirmed",
                                        ![d.id].tx_hash = poller[q].txs[m].hash]
        /\ ledger' = Append(ledger, Entry(d.address, d.amount_nano, "deposit", DRef(d.id)))
        /\ depLock' = [depLock EXCEPT ![d.id] = "none"]
        /\ poller' = [poller EXCEPT ![q] = Continue(@, "confirmed")]
  /\ UNCHANGED <<ADMIN_TOKEN, DISABLE_PAYOUTS, AUTO_PAYOUT_MAX_TON, withdrawals, rowLock, req, gateway, seqno,
                 faults, slots, chain, conv, userVars>>

\* mutant of TickStorageError: the UPDATE to 'confirmed' was committed on its
\* own before the INSERT of the credit threw (no transaction around the two)
TickStorageError_HalfApplied(q) ==
  /\ poller[q].pc = "confirm"
  /\ deposits' = [deposits EXCEPT ![Current(q).id].status = "confirmed"]
  /\ depLock' = [depLock EXCEPT ![Current(q).id] = "none"]
  /\ poller' = [poller EXCEPT ![q] = Continue(@, "rolled back")]
  /\ UNCHANGED <<ADMIN_TOKEN, DISABLE_PAYOUTS, AUTO_PAYOUT_MAX_TON, withdrawals, ledger, rowLock, req, gateway, seqno,
                 faults, slots, chain, conv, userVars>>

\* the UPDATE, the INSERT or the COMMIT throws: ROLLBACK, log, next deposit
TickStorageError(q) ==
  /\ poller[q].pc = "confirm"
  /\ depLock' = [depLock EXCEPT ![Current(q).id] = "none"]
  /\ poller' = [poller EXCEPT ![q] = Continue(@, "rolled back")]
  /\ UNCHANGED <<ADMIN_TOKEN, DISABLE_PAYOUTS, AUTO_PAYOUT_MAX_TON, withdrawals, ledger, rowLock, req, gateway, seqno,
                 faults, slots, deposits, chain, conv, userVars>>

NextDeposit ==
  \/ \E sess \in DepositSessions, amt \in DepositAmounts, dust \in Dusts :
       DepositCreate(sess, amt, dust)
  \/ \E d \in DepIds : IncomingTransfer(deposits[d].amount_nano)
  \/ \E q \in Pollers : TickStart(q)
  \/ \E q \in Pollers : TickScan(q)
  \/ \E q \in Pollers : TickLock(q)
  \/ \E q \in Pollers : TickConfirm(q)
  \/ \E q \in Pollers : TickStorageError(q)

SpecDeposit == InitDeposit /\ [][NextDeposit]_vars


\* ------------------------------------------------ admin token
\* GET /api/admin/withdraw/list: mustAdmin, then the SELECT of the rows
ListRequest(p, token) ==
  /\ CanStart(p)
  /\ req' = [req EXCEPT ![p] =
       IF ~mustAdmin(token)
       THEN [IdleReq EXCEPT !.op = "list", !.pc = "done", !.resp.error = "Unauthorized"]
       ELSE [IdleReq EXCEPT !.op = "list", !.pc = "done",
                            !.resp = [ok |-> TRUE, status |-> "none", error |-> "none"]]]
  /\ UNCHANGED <<ADMIN_TOKEN, DISABLE_PAYOUTS, AUTO_PAYOUT_MAX_TON, withdrawals, ledger, rowLock, gateway, seqno, faults, slots, deposits, depLock, chain, poller, conv, userVars>>

\* the server starts with the admin token set or unset and serves two requests
InitAdmin ==
  /\ NoUserState /\ FundedTables
  /\ ADMIN_TOKEN \in AdminTokens
  /\ AUTO_PAYOUT_MAX_TON = Ceiling /\ faults = 0 /\ slots = MaxFaultProcs

NextAdmin ==
  \/ Next
  \/ \E p \in Procs, token \in Tokens : ListRequest(p, token)

SpecAdmin == InitAdmin /\ [][NextAdmin]_vars

\* ------------------------------------------------ two funded addresses
\* both addresses have a confirmed deposit; the server serves two requests
InitTwo ==
  /\ NoUserState
  /\ ADMIN_TOKEN = AdminSecret
  /\ conv = NoConv
  /\ deposits = [d \in DepIds |->
        IF d = 1 THEN [status |-> "confirmed", address |-> "A1",
                       amount_nano |-> tonToNanoBig(InitialDeposit), tx_hash |-> 1]
        ELSE IF d = 2 THEN [status |-> "confirmed", address |-> "A2",
                            amount_nano |-> tonToNanoBig(InitialDeposit), tx_hash |-> 2]
        ELSE NoDeposit]
  /\ depLock = [d \in DepIds |-> "none"]
  /\ chain = <<Transfer(1, tonToNanoBig(InitialDeposit)),
               Transfer(2, tonToNanoBig(InitialDeposit))>>
  /\ poller = [q \in Pollers |-> IdleTick]
  /\ DISABLE_PAYOUTS \in BOOLEAN
  /\ AUTO_PAYOUT_MAX_TON = Ceiling
  /\ withdrawals = [i \in Ids |-> NoRow]
  /\ ledger = <<Entry("A1", tonToNanoBig(InitialDeposit), "deposit", DRef(1)),
                Entry("A2", tonToNanoBig(InitialDeposit), "deposit", DRef(2))>>
  /\ rowLock = [i \in Ids |-> 0]
  /\ req = [p \in Procs |-> IdleReq]
  /\ gateway = [i \in Ids |-> [calls |-> 0, ok |-> 0]]
  /\ seqno = 0
  /\ faults = 0
  /\ slots = MaxFaultProcs

SpecTwo == InitTwo /\ [][Next]_vars

\* ------------------------------------------------ amount conversions
MaxFracLen == 10
FracDigits == {0, 7}
WholeInputs == {<<0>>, <<1>>, <<0, 1>>}

\* a decimal string "whole" or "whole.frac" as its digits; frac = <<>>: no
\* fractional part; sign is "" or "-"
DecStr(sg, w, f) == [sign |-> sg, whole |-> w, frac |-> f]
AmountStrings ==
  {DecStr("", w, f) : w \in WholeInputs,
                      f \in UNION {[1..k -> FracDigits] : k \in 0..MaxFracLen}}

\* BigInt.prototype.toString of a non-negative value
RECURSIVE NatToDigits(_)
NatToDigits(n) ==
  IF n < 10 THEN <<n>> ELSE Append(NatToDigits(n \div 10), n % 10)

\* .padStart(9, '0')
RECURSIVE padStart(_, _)
padStart(ds, n) == IF Len(ds) >= n THEN ds ELSE padStart(<<0>> \o ds, n)

\* .replace(/0+$/, '')
RECURSIVE StripTrailingZeros(_)
StripTrailingZeros(ds) ==
  IF ds # <<>> /\ ds[Len(ds)] = 0
  THEN StripTrailingZeros(SubSeq(ds, 1, Len(ds) - 1))
  ELSE ds

\* server.js tonToNanoBig on a string that passes /^\d+(\.\d+)?$/
server_tonToNanoBig(s) ==
  DigitsToNat(s.whole) * NanoPerTon
    + DigitsToNat(SubSeq(s.frac \o <<0, 0, 0, 0, 0, 0, 0, 0, 0>>, 1, 9))

\* mutant of nanoToTonStr: the fraction is not padded to nine digits
nanoToTonStr_NoPad(nano) ==
  LET abs == IF nano < 0 THEN 0 - nano ELSE nano
  IN DecStr(IF nano < 0 THEN "-" ELSE "",
            NatToDigits(abs \div NanoPerTon),
            StripTrailingZeros(NatToDigits(abs % NanoPerTon)))

nanoToTonStr(nano) ==
  LET abs == IF nano < 0 THEN 0 - nano ELSE nano
  IN DecStr(IF nano < 0 THEN "-" ELSE "",
            NatToDigits(abs \div NanoPerTon),
            StripTrailingZeros(padStart(NatToDigits(abs % NanoPerTon), 9)))

\* the conversions are applied to one amount string
InitConv ==
  /\ EmptyTables
  /\ conv \in {[pc |-> "string", s |-> s, nano |-> 0, back |-> DecStr("", <<0>>, <<>>)] :
                 s \in AmountStrings}

\* const nano = tonToNanoBig(s)
ToNano ==
  /\ conv.pc = "string"
  /\ conv' = [conv EXCEPT !.pc = "nano", !.nano = server_tonToNanoBig(conv.s)]
  /\ UNCHANGED <<ADMIN_TOKEN, DISABLE_PAYOUTS, AUTO_PAYOUT_MAX_TON, withdrawals, ledger, rowLock, req, gateway, seqno,
                 faults, slots, deposits, depLock, chain, poller, userVars>>

\* nanoToTonStr(nano)
ToStr ==
  /\ conv.pc = "nano"
  /\ conv' = [conv EXCEPT !.pc = "back", !.back = nanoToTonStr(conv.nano)]
  /\ UNCHANGED <<ADMIN_TOKEN, DISABLE_PAYOUTS, AUTO_PAYOUT_MAX_TON, withdrawals, ledger, rowLock, req, gateway, seqno,
                 faults, slots, deposits, depLock, chain, poller, userVars>>

NextConv == ToNano \/ ToStr

SpecConv == InitConv /\ [][NextConv]_vars

\* ------------------------------------------------ game finish, referrals, refund
\* score from which a run is rewarded (TETRIS_T1, default)
TETRIS_T1 == 10000
\* TETRIS_FIXED_REWARD_TON as configured: 0.25 (the default 2.5 TON and the
\* sums it leads to do not fit TLC's integers)
TETRIS_FIXED_REWARD_NANO == tonToNanoBig(Dec(0, <<2, 5>>))
\* the bet of a run: GAME_ENTRY_TON, default 0.5
GAME_ENTRY_TON == Dec(0, <<5>>)

\* ledger.ref = null; ledger.ref of a game run
NullRef == <<"null", 0>>
GRef(g) == <<"g", g>>

\* the owner of run g: runs alternate between the two addresses
OwnerOf(g) == IF g % 2 = 1 THEN "A1" ELSE "A2"

RunInputs == 0..(MaxRuns + 1)
Scores == {0 - 1, 0, TETRIS_T1}
RefundAmounts == {DecStr("", <<0>>, <<2>>), DecStr("", <<0>>, <<>>), DecStr("-", <<1>>, <<>>)}
RefundReasons == {"refund", "referral_claim"}

\* A1 has a confirmed deposit and was invited by A2; every run is started
InitUser ==
  /\ FundedTables
  /\ ADMIN_TOKEN = AdminSecret
  /\ DISABLE_PAYOUTS = FALSE
  /\ AUTO_PAYOUT_MAX_TON = Ceiling
  /\ faults = 0
  /\ slots = 0
  /\ clock = 1
  /\ bonus_claims = [a \in Addrs |-> NoBonusRow]
  /\ game_runs = [g \in Runs |->
        [status |-> "started", address |-> OwnerOf(g),
         bet_nano |-> tonToNanoBig(GAME_ENTRY_TON), score |-> 0, reward_nano |-> 0,
         lock |-> 0]]
  /\ referrals = [a \in Addrs |-> IF a = "A1" THEN "A2" ELSE "none"]
  /\ referral_balances = [a \in Addrs |-> NoRefBalance]
  /\ accrued = [a \in Addrs |-> 0]
  /\ usr = [p \in UProcs |-> IdleUsr]

\* a request is taken in order: processes are interchangeable
CanStartU(p) == usr[p].pc = "idle" /\ \A q \in 1..(p - 1) : usr[q].pc # "idle"

URespond(p, r) == [usr EXCEPT ![p].pc = "done", ![p].resp = r]
UFail(p, msg) == URespond(p, [ok |-> FALSE, error |-> msg, nano |-> 0])

\* Number(amtAny) is finite and > 0
IsPositive(s) ==
  /\ s.sign = ""
  /\ \/ DigitsToNat(s.whole) > 0
     \/ \E i \in 1..Len(s.frac) : s.frac[i] > 0

\* POST /api/refund: session, amount check, addLedger(s.address, amountNano,
\* reason from the body, null)
Refund(p, sess, amt, reason) ==
  /\ CanStartU(p)
  /\ LET r == [IdleUsr EXCEPT !.op = "refund", !.address = sess]
         nano == server_tonToNanoBig(amt)
         e == Entry(sess, nano, reason, NullRef)
     IN IF sess = "none"
        THEN /\ usr' = [usr EXCEPT ![p] = [r EXCEPT !.pc = "done", !.resp.error = "no session"]]
             /\ UNCHANGED ledger
        ELSE IF ~IsPositive(amt)
        THEN /\ usr' = [usr EXCEPT ![p] = [r EXCEPT !.pc = "done", !.resp.error = "bad amount"]]
             /\ UNCHANGED ledger
        ELSE /\ ledger' = addLedger(e.address, e.delta_nano, e.reason, e.ref)
             /\ usr' = [usr EXCEPT ![p] = [r EXCEPT !.pc = "done", !.appended = <<e>>,
                          !.resp = [ok |-> TRUE, error |-> "none", nano |-> nano]]]
  /\ UNCHANGED <<ADMIN_TOKEN, DISABLE_PAYOUTS, AUTO_PAYOUT_MAX_TON, withdrawals, rowLock, req, gateway, seqno,
                 faults, slots, deposits, depLock, chain, poller, conv,
                 clock, bonus_claims, game_runs, referrals, referral_balances, accrued>>

\* POST /api/game/finish: session, game_run_id and score checks
FinishRequest(p, sess, g, sc) ==
  /\ CanStartU(p)
  /\ LET r == [IdleUsr EXCEPT !.op = "finish", !.address = sess, !.run = g, !.score = sc]
     IN usr' = [usr EXCEPT ![p] =
          IF sess = "none" THEN [r EXCEPT !.pc = "done", !.resp.error = "no session"]
          ELSE IF g = 0 THEN [r EXCEPT !.pc = "done", !.resp.error = "game_run_id required"]
          ELSE IF sc < 0 THEN [r EXCEPT !.pc = "done", !.resp.error = "bad score"]
          ELSE [r EXCEPT !.pc = "g_lock"]]
  /\ UNCHANGED <<ADMIN_TOKEN, DISABLE_PAYOUTS, AUTO_PAYOUT_MAX_TON, withdrawals, ledger, rowLock, req, gateway, seqno,
                 faults, slots, deposits, depLock, chain, poller, conv,
                 clock, bonus_claims, game_runs, referrals, referral_balances, accrued>>

\* mutant of FinishLock: a run that is already finished is finished again
FinishLock_NoFinishedCheck(p) ==
  /\ usr[p].pc = "g_lock"
  /\ LET g == usr[p].run
         found == g \in Runs /\ game_runs[g].status # "absent"
     IN IF ~found
        THEN /\ usr' = UFail(p, "game_run_not_found")
             /\ UNCHANGED game_runs
        ELSE /\ game_runs[g].lock = 0
             /\ IF game_runs[g].address # usr[p].address
                THEN /\ usr' = UFail(p, "not_your_game")
                     /\ UNCHANGED game_runs
                ELSE /\ game_runs' = [game_runs EXCEPT ![g].lock = p]
                     /\ usr' = [usr EXCEPT ![p].pc = "g_commit"]
  /\ UNCHANGED <<ADMIN_TOKEN, DISABLE_PAYOUTS, AUTO_PAYOUT_MAX_TON, withdrawals, ledger, rowLock, req, gateway, seqno,
                 faults, slots, deposits, depLock, chain, poller, conv,
                 clock, bonus_claims, referrals, referral_balances, accrued>>

\* BEGIN; SELECT * FROM game_runs WHERE id=$1 FOR UPDATE (waits for the row
\* lock); not found / not_your_game: ROLLBACK; already finished: COMMIT and
\* answer with the stored reward
FinishLock(p) ==
  /\ usr[p].pc = "g_lock"
  /\ LET g == usr[p].run
         found == g \in Runs /\ game_runs[g].status # "absent"
     IN IF ~found
        THEN /\ usr' = UFail(p, "game_run_not_found")
             /\ UNCHANGED game_runs
        ELSE /\ game_runs[g].lock = 0
             /\ IF game_runs[g].address # usr[p].address
                THEN /\ usr' = UFail(p, "not_your_game")
                     /\ UNCHANGED game_runs
                ELSE IF game_runs[g].status = "finished"
                THEN /\ usr' = URespond(p, [ok |-> TRUE, error |-> "none",
                                           nano |-> game_runs[g].reward_nano])
                     /\ UNCHANGED game_runs
                ELSE /\ game_runs' = [game_runs EXCEPT ![g].lock = p]
                     /\ usr' = [usr EXCEPT ![p].pc = "g_commit"]
  /\ UNCHANGED <<ADMIN_TOKEN, DISABLE_PAYOUTS, AUTO_PAYOUT_MAX_TON, withdrawals, ledger, rowLock, req, gateway, seqno,
                 faults, slots, deposits, depLock, chain, poller, conv,
                 clock, bonus_claims, referrals, referral_balances, accrued>>

\* the referrer the finish accrues to ("none": no accrual) and the bonus
ReferrerOf(a) == IF referrals[a] # "none" /\ referrals[a] # a THEN referrals[a] ELSE "none"
refBonus(betNano) == betNano \div 10

\* UPDATE game_runs SET status='finished', score, reward_nano; INSERT INTO
\* ledger 'tetris_reward' when the score reaches TETRIS_T1; INSERT INTO
\* referral_balances ... ON CONFLICT DO UPDATE pending_nano + bonus (waits for
\* the row lock of the referrer's balance); COMMIT
FinishCommit(p) ==
  /\ usr[p].pc = "g_commit"
  /\ LET g == usr[p].run
         a == usr[p].address
         rewardNano == IF usr[p].score >= TETRIS_T1 THEN TETRIS_FIXED_REWARD_NANO ELSE 0
         e == Entry(a, rewardNano, "tetris_reward", GRef(g))
         refAddr == ReferrerOf(a)
         bonus == IF refAddr = "none" THEN 0 ELSE refBonus(game_runs[g].bet_nano)
     IN /\ bonus > 0 => referral_balances[refAddr].lock \in {0, p}
        /\ game_runs' = [game_runs EXCEPT ![g].status = "finished",
                                           ![g].score = usr[p].score,
                                           ![g].reward_nano = rewardNano,
                                           ![g].lock = 0]
        /\ ledger' = IF rewardNano > 0 THEN Append(ledger, e) ELSE ledger
        /\ referral_balances' =
             IF bonus > 0
             THEN [referral_balances EXCEPT ![refAddr].exists = TRUE,
                                            ![refAddr].pending_nano = @ + bonus]
             ELSE referral_balances
        /\ accrued' = IF bonus > 0 THEN [accrued EXCEPT ![refAddr] = @ + bonus] ELSE accrued
        /\ usr' = [usr EXCEPT ![p].pc = "done",
                              ![p].appended = IF rewardNano > 0 THEN <<e>> ELSE <<>>,
                              ![p].accrual = bonus,
                              ![p].resp = [ok |-> TRUE, error |-> "none", nano |-> rewardNano]]
  /\ UNCHANGED <<ADMIN_TOKEN, DISABLE_PAYOUTS, AUTO_PAYOUT_MAX_TON, withdrawals, rowLock, req, gateway, seqno,
                 faults, slots, deposits, depLock, chain, poller, conv,
                 clock, bonus_claims, referrals>>

\* POST /api/referral/claim: session
ClaimRequest(p, sess) ==
  /\ CanStartU(p)
  /\ LET r == [IdleUsr EXCEPT !.op = "referral", !.address = sess]
     IN usr' = [usr EXCEPT ![p] =
          IF sess = "none" THEN [r EXCEPT !.pc = "done", !.resp.error = "no session"]
          ELSE [r EXCEPT !.pc = "f_lock"]]
  /\ UNCHANGED <<ADMIN_TOKEN, DISABLE_PAYOUTS, AUTO_PAYOUT_MAX_TON, withdrawals, ledger, rowLock, req, gateway, seqno,
                 faults, slots, deposits, depLock, chain, poller, conv,
                 clock, bonus_claims, game_runs, referrals, referral_balances, accrued>>

\* BEGIN; SELECT pending_nano FROM referral_balances WHERE address=$1 FOR
\* UPDATE (waits for the row lock); pending <= 0: nothing_to_claim, ROLLBACK
ClaimLock(p) ==
  /\ usr[p].pc = "f_lock"
  /\ LET a == usr[p].address
         row == referral_balances[a]
     IN IF ~row.exists
        THEN /\ usr' = UFail(p, "nothing_to_claim")
             /\ UNCHANGED referral_balances
        ELSE /\ row.lock = 0
             /\ IF row.pending_nano <= 0
                THEN /\ usr' = UFail(p, "nothing_to_claim")
                     /\ UNCHANGED referral_balances
                ELSE /\ referral_balances' = [referral_balances EXCEPT ![a].lock = p]
                     /\ usr' = [usr EXCEPT ![p].pc = "f_commit",
                                           ![p].pending = row.pending_nano]
  /\ UNCHANGED <<ADMIN_TOKEN, DISABLE_PAYOUTS, AUTO_PAYOUT_MAX_TON, withdrawals, ledger, rowLock, req, gateway, seqno,
                 faults, slots, deposits, depLock, chain, poller, conv,
                 clock, bonus_claims, game_runs, referrals, accrued>>

\* UPDATE referral_balances SET pending_nano=0; INSERT INTO ledger (address,
\* pending, 'referral_claim', null); COMMIT
ClaimCommit(p) ==
  /\ usr[p].pc = "f_commit"
  /\ LET a == usr[p].address
         e == Entry(a, usr[p].pending, "referral_claim", NullRef)
     IN /\ referral_balances' = [referral_balances EXCEPT ![a].pending_nano = 0,
                                                          ![a].lock = 0]
        /\ ledger' = Append(ledger, e)
        /\ usr' = [usr EXCEPT ![p].pc = "done", ![p].appended = <<e>>,
                     ![p].resp = [ok |-> TRUE, error |-> "none", nano |-> usr[p].pending]]
  /\ UNCHANGED <<ADMIN_TOKEN, DISABLE_PAYOUTS, AUTO_PAYOUT_MAX_TON, withdrawals, rowLock, req, gateway, seqno,
                 faults, slots, deposits, depLock, chain, poller, conv,
                 clock, bonus_claims, game_runs, referrals, accrued>>

NextGame ==
  \/ \E p \in UProcs, sess \in Sessions, g \in RunInputs, sc \in Scores :
       FinishRequest(p, sess, g, sc)
  \/ \E p \in UProcs : FinishLock(p)
  \/ \E p \in UProcs : FinishCommit(p)
  \/ \E p \in UProcs, sess \in Sessions : ClaimRequest(p, sess)
  \/ \E p \in UProcs : ClaimLock(p)
  \/ \E p \in UProcs : ClaimCommit(p)

SpecGame == InitUser /\ [][NextGame]_vars

\* the same with refunds
NextRefund ==
  \/ NextGame
  \/ \E p \in UProcs, sess \in Sessions, amt \in RefundAmounts, reason \in RefundReasons :
       Refund(p, sess, amt, reason)

SpecRefund == InitUser /\ [][NextRefund]_vars

\* ------------------------------------------------ bonus claims
\* defaults of BONUS_AMOUNT_TON and BONUS_INTERVAL_HOURS
BONUS_AMOUNT_TON == Dec(0, <<1>>)
BONUS_INTERVAL_HOURS == 12
\* BONUS_MIN_TOTAL_DEPOSIT_TON as configured: 0.3 (with the default 3 TON the
\* deposits needed do not fit TLC's integers)
BONUS_MIN_TOTAL_DEPOSIT_TON == Dec(0, <<3>>)
\* the clock is looked at every six hours
ClockStep == 6

\* SELECT COALESCE(SUM(delta_nano),0) FROM ledger WHERE address=$1 AND
\* reason='deposit' AND delta_nano > 0
getTotalDepositedNano(a) ==
  LET k(e) == e.address = a /\ e.reason = "deposit" /\ e.delta_nano > 0
  IN SumDelta(SelectSeq(ledger, k))

\* time passes
Tick ==
  /\ clock + ClockStep <= 1 + ClockStep * MaxClock
  /\ clock' = clock + ClockStep
  /\ UNCHANGED <<ADMIN_TOKEN, DISABLE_PAYOUTS, AUTO_PAYOUT_MAX_TON, withdrawals, ledger, rowLock, req, gateway, seqno,
                 faults, slots, deposits, depLock, chain, poller, conv,
                 bonus_claims, game_runs, referrals, referral_balances, accrued, usr>>

\* POST /api/bonus/claim: session, eligibility (total deposited), now = Date.now()
BonusRequest(p, sess) ==
  /\ CanStartU(p)
  /\ LET r == [IdleUsr EXCEPT !.op = "bonus", !.address = sess]
     IN usr' = [usr EXCEPT ![p] =
          IF sess = "none" THEN [r EXCEPT !.pc = "done", !.resp.error = "no session"]
          ELSE IF getTotalDepositedNano(sess) < tonToNanoBig(BONUS_MIN_TOTAL_DEPOSIT_TON)
          THEN [r EXCEPT !.pc = "done", !.resp.error = "not_eligible"]
          ELSE [r EXCEPT !.pc = "b_lock", !.now = clock]]
  /\ UNCHANGED <<ADMIN_TOKEN, DISABLE_PAYOUTS, AUTO_PAYOUT_MAX_TON, withdrawals, ledger, rowLock, req, gateway, seqno,
                 faults, slots, deposits, depLock, chain, poller, conv,
                 clock, bonus_claims, game_runs, referrals, referral_balances, accrued>>

\* BEGIN; SELECT last_claim_at FROM bonus_claims WHERE address=$1 FOR UPDATE:
\* an existing row is locked (the SELECT waits for it), no row: nothing is
\* locked and last = 0; last != 0 && now < last + interval: too_early, ROLLBACK
BonusLock(p) ==
  /\ usr[p].pc = "b_lock"
  /\ LET a == usr[p].address
         row == bonus_claims[a]
         last == IF row.exists THEN row.last_claim_at ELSE 0
     IN /\ row.exists => row.lock = 0
        /\ IF last # 0 /\ usr[p].now < last + BONUS_INTERVAL_HOURS
           THEN /\ usr' = UFail(p, "too_early")
                /\ UNCHANGED bonus_claims
           ELSE /\ bonus_claims' = IF row.exists THEN [bonus_claims EXCEPT ![a].lock = p]
                                   ELSE bonus_claims
                /\ usr' = [usr EXCEPT ![p].pc = "b_commit"]
  /\ UNCHANGED <<ADMIN_TOKEN, DISABLE_PAYOUTS, AUTO_PAYOUT_MAX_TON, withdrawals, ledger, rowLock, req, gateway, seqno,
                 faults, slots, deposits, depLock, chain, poller, conv,
                 clock, game_runs, referrals, referral_balances, accrued>>

\* INSERT INTO bonus_claims ... ON CONFLICT (address) DO UPDATE SET
\* last_claim_at (waits while another transaction holds the row); INSERT INTO
\* ledger (address, amount, 'bonus_claim', null); COMMIT
BonusCommit(p) ==
  /\ usr[p].pc = "b_commit"
  /\ LET a == usr[p].address
         e == Entry(a, tonToNanoBig(BONUS_AMOUNT_TON), "bonus_claim", NullRef)
     IN /\ bonus_claims[a].lock \in {0, p}
        /\ bonus_claims' = [bonus_claims EXCEPT ![a] =
             [exists |-> TRUE, last_claim_at |-> usr[p].now, lock |-> 0]]
        /\ ledger' = Append(ledger, e)
        /\ usr' = [usr EXCEPT ![p].pc = "done", ![p].appended = <<e>>,
                     ![p].resp = [ok |-> TRUE, error |-> "none", nano |-> e.delta_nano]]
  /\ UNCHANGED <<ADMIN_TOKEN, DISABLE_PAYOUTS, AUTO_PAYOUT_MAX_TON, withdrawals, rowLock, req, gateway, seqno,
                 faults, slots, deposits, depLock, chain, poller, conv,
                 clock, game_runs, referrals, referral_balances, accrued>>

NextBonus ==
  \/ Tick
  \/ \E p \in UProcs, sess \in Sessions : BonusRequest(p, sess)
  \/ \E p \in UProcs : BonusLock(p)
  \/ \E p \in UProcs : BonusCommit(p)

SpecBonus == InitUser /\ [][NextBonus]_vars

TypeOK ==
  /\ DISABLE_PAYOUTS \in BOOLEAN
  /\ \A i \in Ids : withdrawals[i].status \in
        {"absent", "pending", "processing", "paid", "failed", "rejected"}
  /\ \A i \in Ids : rowLock[i] \in Procs \cup {0}

\* ------------------------------------------------------------- observations
Terminal == {"paid", "failed", "rejected"}
ReleaseReasons == {"withdraw_release", "withdraw_reject_release"}

\* ledger entries that carry the withdrawal id as ref
RefEntries(i) == LET k(e) == e.ref = WRef(i) IN SelectSeq(ledger, k)
Holds(i) == LET k(e) == e.reason = "withdraw_hold" IN SelectSeq(RefEntries(i), k)
Releases(i) == LET k(e) == e.reason \in ReleaseReasons IN SelectSeq(RefEntries(i), k)

\* admin requests that got past mustAdmin for withdrawal i
AdminOn(kind, i) == {p \in Procs : req[p].op = kind /\ req[p].id = i /\ req[p].pc # "idle"
                                      /\ req[p].resp.error # "Unauthorized"}
Finished(p) == req[p].pc = "done"

HoldOf(i) == Entry(withdrawals[i].address, 0 - withdrawals[i].amount_nano,
                   "withdraw_hold", WRef(i))

\* ------------------------------------------------------------------ C1
\* C1: when exactly two approve requests are invoked on the same withdrawal
\* while it is pending (payouts enabled, no reject on it), then once both have
\* responded
\* exactly one of them has called the gateway and left the withdrawal paid or
\* failed, the gateway was called once for the id, and the other one got
\* 'bad status', called no gateway and appended no ledger entry.
C1_ConcurrentApproveOnce ==
  \A i \in Ids : \A p, q \in AdminOn("approve", i) :
    ( /\ p # q /\ Finished(p) /\ Finished(q)
      /\ AdminOn("approve", i) = {p, q}
      /\ req[p].at = "pending" /\ req[q].at = "pending"
      /\ ~DISABLE_PAYOUTS
      /\ AdminOn("reject", i) = {} )
    => /\ gateway[i].calls = 1
       /\ req[p].sent + req[q].sent = 1
       /\ withdrawals[i].status \in {"paid", "failed"}
       /\ \A l \in {p, q} :
            IF req[l].sent = 1
            THEN \/ req[l].resp.ok /\ withdrawals[i].status = "paid"
                 \/ req[l].resp.error = "payout error" /\ withdrawals[i].status = "failed"
            ELSE /\ req[l].resp.error = "bad status"
                 /\ req[l].appended = <<>>
                 /\ req[l].writes = 0
       /\ Len(Releases(i)) = IF withdrawals[i].status = "failed" THEN 1 ELSE 0

C1_Witness ==
  \E i \in Ids : \E p, q \in AdminOn("approve", i) :
    /\ p # q /\ Finished(p) /\ Finished(q)
    /\ req[p].at = "pending" /\ req[q].at = "pending"
    /\ AdminOn("reject", i) = {}
    /\ req[p].sent = 1 /\ req[q].resp.error = "bad status"

\* ------------------------------------------------------------------ C2
\* C2: for every withdrawal id the payout gateway is entered at most once, over
\* every interleaving of create (with its auto-pay step), approve and reject.
C2_GatewayAtMostOnce == \A i \in Ids : gateway[i].calls <= 1

\* the gateway was called for i and a later approve of i was turned away
C2_Witness ==
  \E i \in Ids : \E p \in AdminOn("approve", i) :
    /\ gateway[i].calls = 1
    /\ Finished(p) /\ req[p].resp.error = "bad status" /\ req[p].w.status = "processing"

\* ------------------------------------------------------------------ C3
\* C3: two concurrent create requests of one address cannot both pass the
\* balance check when their amounts together exceed the balance: the balance
\* of every address is never negative.
C3_BalanceNeverNegative == \A a \in Addrs : Balance(a) >= 0

\* ------------------------------------------------------------------ C4
\* C4: every withdrawal has exactly one hold entry, exactly one release entry
\* when its status is failed or rejected, and no release entry when it is paid
\* (the entry reject appends, reason 'withdraw_reject_release', counts as a
\* release here).
C4_HoldReleaseCount ==
  \A i \in Ids : withdrawals[i].status # "absent" =>
    /\ Len(Holds(i)) = 1
    /\ withdrawals[i].status \in {"failed", "rejected"} => Len(Releases(i)) = 1
    /\ withdrawals[i].status = "paid" => Len(Releases(i)) = 0

\* ------------------------------------------------------------------ C5
\* C5: once the gateway call for a withdrawal id has returned success, the
\* ledger holds no release entry for that id.
C5_NoReleaseAfterPayout ==
  \A i \in Ids : gateway[i].ok > 0 => Len(Releases(i)) = 0

\* ------------------------------------------------------------------ C6
\* C6: with payouts enabled, every withdrawal that is 'processing' eventually
\* is 'paid', or 'failed' with its hold released, also when the server dies or
\* a finalizing write fails.
C6_ProcessingResolves ==
  \A i \in Ids :
    (~DISABLE_PAYOUTS /\ withdrawals[i].status = "processing")
      ~> \/ withdrawals[i].status = "paid"
         \/ withdrawals[i].status = "failed" /\ Len(Releases(i)) >= 1

\* ------------------------------------------------------------------ C7
\* C7: an approve invoked on a withdrawal that is paid, failed or rejected
\* ends with 'bad status', calls no gateway, appends no ledger entry and
\* writes nothing to the row.
C7_ApproveTerminalRefused ==
  \A p \in Procs :
    (req[p].op = "approve" /\ Finished(p) /\ req[p].at \in Terminal)
    => /\ req[p].resp.error = "bad status"
       /\ req[p].sent = 0
       /\ req[p].appended = <<>>
       /\ req[p].writes = 0

\* ------------------------------------------------------------------ C8
\* C8: a reject that read its withdrawal as 'pending' responds ok/'rejected',
\* has appended exactly one entry, the positive release of the held amount for
\* the withdrawal's address with the withdrawal id as ref, and has written the
\* row once; when it is the only admin request on the id the status is
\* 'rejected' and the entries of the id are the hold and that release, which
\* cancel.  A reject that read any other status (or no row) fails, with
\* 'bad status' (or 'not found'), and has appended and written nothing.
RejectReleaseOf(p) ==
  Entry(req[p].w.address, req[p].w.amount_nano, "withdraw_reject_release", WRef(req[p].id))

C8_RejectOnlyPending ==
  \A p \in Procs :
    (req[p].op = "reject" /\ Finished(p) /\ req[p].resp.error # "Unauthorized")
    => LET i == req[p].id
           rel == RejectReleaseOf(p)
       IN IF req[p].w.status = "pending"
          THEN /\ req[p].resp = [ok |-> TRUE, status |-> "rejected", error |-> "none"]
               /\ req[p].appended = <<rel>>
               /\ req[p].writes = 1
               /\ rel.delta_nano > 0
               /\ rel.delta_nano + HoldOf(i).delta_nano = 0
               /\ rel.address = withdrawals[i].address
               /\ \E n \in 1..Len(ledger) : ledger[n] = rel
               /\ (AdminOn("approve", i) = {} /\ AdminOn("reject", i) = {p})
                    => /\ withdrawals[i].status = "rejected"
                       /\ RefEntries(i) = <<HoldOf(i), rel>>
                       /\ SumDelta(RefEntries(i)) = 0
          ELSE /\ ~req[p].resp.ok
               /\ req[p].resp.error =
                    IF req[p].w.status = "absent" THEN "not found" ELSE "bad status"
               /\ req[p].appended = <<>>
               /\ req[p].writes = 0

\* one reject went through and a later one of the same id was turned away
C8_Witness ==
  \E p, q \in Procs :
    /\ req[p].op = "reject" /\ Finished(p) /\ req[p].resp.ok
    /\ req[q].op = "reject" /\ Finished(q) /\ req[q].id = req[p].id
    /\ req[q].resp.error = "bad status" /\ req[q].w.status = "rejected"
    /\ SumDelta(RefEntries(req[p].id)) = 0

\* ------------------------------------------------------------------ C9
\* C9: an approve that found its withdrawal 'pending' under the row lock writes
\* 'processing' and commits before it enters the gateway (one row write, no
\* ledger entry, lock given back); if the gateway succeeds it responds 'paid'
\* and has appended nothing; if the gateway fails it has appended exactly one
\* release of the held amount and responds with the gateway's error.  With no
\* reject on the id, the withdrawal is 'processing' during the call and ends
\* 'paid' without a release, respectively 'failed' with that one release.
ApproveReleaseOf(p) ==
  Entry(req[p].w.address, req[p].w.amount_nano, "withdraw_release", WRef(req[p].id))

C9_ApproveTwoPhase ==
  \A p \in Procs :
    (req[p].op = "approve" /\ req[p].w.status = "pending")
    => LET i == req[p].id
           rel == ApproveReleaseOf(p)
           quiet == AdminOn("reject", i) = {}
       IN /\ req[p].sent <= 1
          /\ req[p].pc = "a_commit" =>
               req[p].sent = 0 /\ req[p].writes = 0 /\ rowLock[i] = p
          /\ req[p].pc \in {"a_send", "a_gw"} =>
               /\ req[p].sent = (IF req[p].pc = "a_gw" THEN 1 ELSE 0)
               /\ req[p].writes = 1 /\ req[p].appended = <<>>
               /\ rowLock[i] # p
               /\ quiet => withdrawals[i].status = "processing"
          /\ Finished(p) =>
               /\ req[p].sent = 1
               /\ \/ /\ req[p].resp = [ok |-> TRUE, status |-> "paid", error |-> "none"]
                     /\ gateway[i].ok = 1
                     /\ req[p].appended = <<>>
                     /\ quiet => /\ withdrawals[i].status = "paid"
                                  /\ withdrawals[i].note = <<"tx", req[p].tx>>
                                  /\ Releases(i) = <<>>
                  \/ /\ req[p].resp = [ok |-> FALSE, status |-> "none", error |-> "payout error"]
                     /\ gateway[i].ok = 0
                     /\ req[p].appended = <<rel>>
                     /\ rel.delta_nano = withdrawals[i].amount_nano
                     /\ quiet => /\ withdrawals[i].status = "failed"
                                  /\ Releases(i) = <<rel>>
                                  /\ SumDelta(RefEntries(i)) = 0

\* an approve whose gateway call failed has finished
C9_Witness ==
  \E p \in Procs :
    /\ req[p].op = "approve" /\ Finished(p) /\ req[p].sent = 1
    /\ req[p].resp.error = "payout error"
    /\ withdrawals[req[p].id].status = "failed"
    /\ Releases(req[p].id) = <<ApproveReleaseOf(p)>>

\* ------------------------------------------------------------------ C10
\* C10: a create of an amount at or below the ceiling whose gateway call
\* succeeded ends 'paid' with the receipt in note, and the entries with its id
\* as ref are exactly the hold of -amount (the balance is down by the amount).
C10_AutoPayoutPaid ==
  \A p \in Procs :
    ( /\ req[p].op = "create" /\ Finished(p)
      /\ NumLE(req[p].amountTon, AUTO_PAYOUT_MAX_TON)
      /\ req[p].sent = 1 /\ req[p].err = "none" )
    => LET i == req[p].id
       IN /\ req[p].resp = [ok |-> TRUE, status |-> "paid", error |-> "none"]
          /\ gateway[i].ok = 1
          /\ withdrawals[i].status = "paid"
          /\ withdrawals[i].decided
          /\ withdrawals[i].note = <<"tx", req[p].tx>>
          /\ RefEntries(i) = <<Entry(req[p].address, 0 - tonToNanoBig(req[p].amountTon),
                                      "withdraw_hold", WRef(i))>>
          /\ SumDelta(RefEntries(i)) = 0 - withdrawals[i].amount_nano

C10_Witness ==
  \E p \in Procs :
    /\ req[p].op = "create" /\ Finished(p) /\ req[p].sent = 1
    /\ req[p].resp.status = "paid"
    /\ Balance(req[p].address) = tonToNanoBig(InitialDeposit) - req[p].amountNano

\* ------------------------------------------------------------------ C11
\* C11: a create of an amount at or below the ceiling whose gateway call
\* failed ends 'failed'; the entries with its id as ref are the hold of -amount
\* followed by one 'withdraw_release' of +amount, so they sum to zero.
C11_AutoPayoutFailed ==
  \A p \in Procs :
    ( /\ req[p].op = "create" /\ Finished(p)
      /\ NumLE(req[p].amountTon, AUTO_PAYOUT_MAX_TON)
      /\ req[p].sent = 1 /\ req[p].err = "payout error" )
    => LET i == req[p].id
           amount == tonToNanoBig(req[p].amountTon)
       IN /\ req[p].resp = [ok |-> FALSE, status |-> "failed", error |-> "payout error"]
          /\ gateway[i].ok = 0
          /\ withdrawals[i].status = "failed"
          /\ withdrawals[i].note = <<"error", "payout error">>
          /\ RefEntries(i) =
               << Entry(req[p].address, 0 - amount, "withdraw_hold", WRef(i)),
                  Entry(req[p].address, amount, "withdraw_release", WRef(i)) >>
          /\ SumDelta(RefEntries(i)) = 0

\* the only request so far is a create whose payout failed: the balance is
\* back at the deposit
C11_Witness ==
  \E p \in Procs :
    /\ req[p].op = "create" /\ Finished(p) /\ req[p].sent = 1
    /\ req[p].resp.status = "failed"
    /\ Len(Releases(req[p].id)) = 1
    /\ \A q \in Procs \ {p} : req[q].pc = "idle"
    /\ Balance(req[p].address) = tonToNanoBig(InitialDeposit)

\* ------------------------------------------------------------------ C12
\* C12: the step that commits a create inserts the row as 'processing' when
\* the amount is at most the ceiling and as 'pending' otherwise, and a create
\* calls the gateway only for a row that was inserted, and still is, 'processing'.
C12_InitialStatusRouting ==
  [][\A p \in Procs :
       LET i == req'[p].id
           small == tonToNanoBig(req'[p].amountTon) <= tonToNanoBig(AUTO_PAYOUT_MAX_TON)
       IN /\ (req[p].pc = "c_commit" /\ i # 0) =>
               /\ withdrawals[i].status = "absent"
               /\ withdrawals'[i].status = (IF small THEN "processing" ELSE "pending")
               /\ ~small => Finished(p)' /\ req'[p].resp.status = "pending"
          /\ (req[p].op = "create" /\ req'[p].sent > req[p].sent) =>
               small /\ withdrawals[i].status = "processing"
    ]_vars

\* one create was inserted 'pending' and answered, another is at the gateway
C12_Witness ==
  \E p, q \in Procs :
    /\ req[p].op = "create" /\ Finished(p) /\ req[p].resp.status = "pending"
    /\ req[p].amountTon = Dec(0, <<4>>) /\ req[p].sent = 0
    /\ req[q].op = "create" /\ req[q].pc = "c_gw"
    /\ req[q].amountTon = AUTO_PAYOUT_MAX_TON

\* ------------------------------------------------------------------ C13
\* C13: a create with an empty destination, a non-finite or non-positive
\* amount, or an amount below the minimum is answered by the step that accepts
\* it, with an error and no row, ledger entry or gateway call.
InvalidInput(to, amt) ==
  \/ to = ""
  \/ ~IsFinite(amt)
  \/ tonToNanoBig(amt) <= 0
  \/ tonToNanoBig(amt) < tonToNanoBig(MIN_WITHDRAW_TON)

ValidationErrors == {"to required", "bad amount", "min withdraw"}

C13_ValidationBeforeState ==
  [][/\ \A p \in Procs, sess \in Addrs, to \in Destinations, amt \in AmountInputs :
       (CreateRequest(p, sess, to, amt) /\ InvalidInput(to, amt)) =>
          /\ Finished(p)'
          /\ ~req'[p].resp.ok
          /\ req'[p].resp.error \in ValidationErrors
          /\ req'[p].id = 0 /\ req'[p].sent = 0
          /\ req'[p].appended = <<>> /\ req'[p].writes = 0
          /\ UNCHANGED <<withdrawals, ledger, gateway, rowLock>>
     /\ \A p \in Procs :
          (req[p].pc = "idle" /\ req'[p].op = "create" /\ ~Finished(p)') =>
             ~InvalidInput(req'[p].to, req'[p].amountTon)
    ]_vars

\* two creates were refused, one for an amount below the minimum and one for
\* an amount that is not positive or not a number, and nothing was stored
C13_Witness ==
  /\ \E p, q \in Procs :
       /\ req[p].op = "create" /\ Finished(p) /\ req[p].resp.error = "min withdraw"
       /\ req[q].op = "create" /\ Finished(q) /\ req[q].resp.error = "bad amount"
  /\ \A i \in Ids : withdrawals[i].status = "absent" /\ gateway[i].calls = 0
  /\ Len(ledger) = 1

\* ------------------------------------------------------------------ C14
\* C14: a create whose amount exceeds the balance read in its transaction
\* fails there with the insufficient-funds error: no row, no ledger entry, no
\* gateway call, and the transaction is closed.
C14_InsufficientFunds ==
  [][\A p \in Procs :
       ( /\ req[p].pc = "c_balance" /\ req'[p] # req[p]
         /\ SumDelta(OfAddress(req[p].address)) < tonToNanoBig(req[p].amountTon) )
       => /\ Finished(p)'
          /\ req'[p].resp = [ok |-> FALSE, status |-> "none", error |-> "insufficient funds"]
          /\ req'[p].id = 0 /\ req'[p].sent = 0
          /\ req'[p].appended = <<>> /\ req'[p].writes = 0
          /\ req'[p].client = "none"
          /\ UNCHANGED <<withdrawals, ledger, gateway, rowLock>>
    ]_vars

\* a create for an address with an empty ledger was refused (balance 0), and
\* so was one for an address whose deposit is held by an earlier withdrawal
C14_Witness ==
  \E p, q \in Procs :
    /\ req[p].op = "create" /\ req[p].address = "A1" /\ req[p].resp.status = "pending"
    /\ req[q].op = "create" /\ req[q].address \in Addrs
    /\ req[q].resp.error = "insufficient funds"
    /\ Balance("A1") = tonToNanoBig(InitialDeposit) - tonToNanoBig(Dec(0, <<4>>))
    /\ Balance("A2") = 0
    /\ \A i \in Ids : RefEntries(i) # <<>> <=> i = 1

\* ------------------------------------------------------------------ C15
\* C15: while sendTon is being called or awaited, from create or from
\* approve, the calling request has no open transaction and holds no row lock.
C15_NoLockDuringPayout ==
  \A p \in Procs :
    req[p].pc \in {"c_send", "c_gw", "a_send", "a_gw"}
    => /\ req[p].client = "none"
       /\ \A i \in Ids : rowLock[i] # p
       /\ req[p].writes = 1

\* an approve is at the gateway with the row unlocked, and a create is at the
\* gateway too
C15_Witness ==
  \E p, q \in Procs :
    /\ req[p].op = "approve" /\ req[p].pc = "a_gw"
    /\ rowLock[req[p].id] = 0
    /\ req[q].op = "create" /\ req[q].pc = "c_gw"

\* ------------------------------------------------------------------ C16
\* C16: for every withdrawal id at most one release entry is ever appended,
\* and of two rejects that both read the same pending withdrawal one gets
\* 'bad status'.
C16_ReleaseOncePerRef ==
  /\ \A i \in Ids : Len(Releases(i)) <= 1
  /\ \A p, q \in Procs :
       ( /\ p # q /\ req[p].op = "reject" /\ req[q].op = "reject"
         /\ req[p].id = req[q].id /\ Finished(p) /\ Finished(q)
         /\ req[p].resp.ok )
       => req[q].resp.error = "bad status"

\* ------------------------------------------------------------------ C17
\* C17: once no request stands between the release and the status UPDATE of a
\* withdrawal (it has answered, or the server died), a withdrawal that is
\* still 'pending' or 'processing' has no release entry.
BetweenWrites(i) ==
  {p \in Procs : req[p].id = i /\ req[p].pc \in {"c_failed", "a_failed", "r_update"}}

C17_ReleaseWithTransition ==
  \A i \in Ids :
    (withdrawals[i].status \in {"pending", "processing"} /\ BetweenWrites(i) = {})
    => Releases(i) = <<>>

\* ------------------------------------------------------------------ C18
\* C18: a withdrawal row exists exactly when one 'withdraw_hold' entry with its
\* id as ref exists, and that entry is the hold of the row's address and
\* amount; this also holds when the create transaction fails or the server dies.
C18_RowIffHold ==
  \A i \in Ids :
    /\ withdrawals[i].status # "absent" <=> Len(Holds(i)) >= 1
    /\ withdrawals[i].status # "absent" => Holds(i) = <<HoldOf(i)>>
    /\ withdrawals[i].status = "absent" => RefEntries(i) = <<>>

\* a create failed inside its transaction and left nothing, while another
\* create committed row and hold
C18_Witness ==
  \E p, q \in Procs :
    /\ req[p].op = "create" /\ Finished(p) /\ req[p].resp.error = "storage error"
    /\ req[p].id = 0 /\ req[p].appended = <<>>
    /\ req[q].op = "create" /\ req[q].id = 1
    /\ withdrawals[1].status = "processing" /\ Len(Holds(1)) = 1
    /\ withdrawals[2].status = "absent" /\ Len(ledger) = 2

\* ------------------------------------------------------------------ C19
\* C19: an approve whose lock transaction failed after the row was read under
\* lock (storage error, gateway not called) appends no ledger entry and writes
\* nothing to the row.
C19_ApproveTxAborts ==
  \A p \in Procs :
    ( /\ req[p].op = "approve" /\ req[p].w.status = "pending"
      /\ req[p].err = "storage error" /\ req[p].sent = 0 )
    => /\ req[p].appended = <<>>
       /\ req[p].writes = 0
       /\ withdrawals[req[p].id].status # "failed"

\* ------------------------------------------------------------------ C20
\* C20: a deposit id is credited at most once, whether its confirmation is
\* attempted twice in sequence or by two pollers at once: the attempt that
\* finds the deposit no longer pending appends nothing, and the one credit is
\* there.
Credits(d) ==
  LET k(e) == e.reason = "deposit" /\ e.ref = DRef(d) IN SelectSeq(ledger, k)

CreditOf(d) == Entry(deposits[d].address, deposits[d].amount_nano, "deposit", DRef(d))

ConfirmedIffCredited(d) ==
  IF deposits[d].status = "confirmed"
  THEN Credits(d) = <<CreditOf(d)>>
  ELSE Credits(d) = <<>>

C22_RoundTripSameString ==
  (conv.pc = "back" /\ Len(conv.s.frac) <= 9) => conv.back = conv.s

\* the string nanoToTonStr produces for a value: no leading zero before the
\* units digit, no trailing zero in the fraction
Canonical(s) ==
  /\ s.sign = ""
  /\ Len(s.whole) = 1 \/ s.whole[1] # 0
  /\ s.frac = <<>> \/ s.frac[Len(s.frac)] # 0

\* C22 as amended: a canonical string with up to 9 fractional digits comes
\* back as the same string; any string with up to 9 fractional digits comes
\* back as the canonical string of the same value.
C22_RoundTripCanonical ==
  (conv.pc = "back" /\ Len(conv.s.frac) <= 9) =>
     /\ Canonical(conv.s) => conv.back = conv.s
     /\ Canonical(conv.back)
     /\ server_tonToNanoBig(conv.back) = conv.nano
     /\ DigitsToNat(conv.back.whole) = DigitsToNat(conv.s.whole)
     /\ StripTrailingZeros(conv.s.frac) = conv.back.frac

\* "1.070000007" came back unchanged
C22_Witness ==
  /\ conv.pc = "back"
  /\ conv.s = DecStr("", <<1>>, <<0, 7, 0, 0, 0, 0, 0, 0, 7>>)
  /\ conv.nano = 1070000007
  /\ conv.back = conv.s

C24_TerminalStatusKept ==
  [][\A i \in Ids :
       withdrawals[i].status \in Terminal => withdrawals'[i].status = withdrawals[i].status
    ]_vars

\* ------------------------------------------------------------------ C25
\* C25: with the ceiling configured as zero every create that commits inserts
\* its row as 'pending' and answers 'pending', and no create reaches the
\* auto-pay steps or calls the gateway.
C25_ZeroCeilingManualOnly ==
  tonToNanoBig(AUTO_PAYOUT_MAX_TON) = 0 =>
    \A p \in Procs : req[p].op = "create" =>
      /\ req[p].sent = 0
      /\ req[p].pc \in {"c_balance", "c_commit", "done"}
      /\ req[p].id # 0 =>
           /\ Finished(p)
           /\ req[p].resp = [ok |-> TRUE, status |-> "pending", error |-> "none"]
           /\ req[p].writes = 1
           /\ (AdminOn("approve", req[p].id) = {} /\ AdminOn("reject", req[p].id) = {})
                => /\ withdrawals[req[p].id].status = "pending"
                   /\ gateway[req[p].id].calls = 0

\* with a zero ceiling a create of 0.2 TON (auto-paid under the other
\* ceiling) and one of 0.4 TON are both committed as 'pending'
C25_Witness ==
  /\ tonToNanoBig(AUTO_PAYOUT_MAX_TON) = 0
  /\ \E p, q \in Procs :
       /\ req[p].op = "create" /\ req[p].amountTon = Dec(0, <<2>>) /\ req[p].id # 0
       /\ req[q].op = "create" /\ req[q].amountTon = Dec(0, <<4>>) /\ req[q].id # 0
       /\ withdrawals[req[p].id].status = "pending"
       /\ withdrawals[req[q].id].status = "pending"
  /\ \A i \in Ids : gateway[i].calls = 0

\* ------------------------------------------------------------------ C26
\* C26: for every submitted amount, also one with more than nine fractional
\* digits, a valid create is refused for the minimum exactly when the held
\* amountNano is below the minimum in nano, and its row is inserted
\* 'processing' exactly when amountNano is at most the ceiling in nano.
C26_DecidedOnNano ==
  [][/\ \A p \in Procs, sess \in Addrs, amt \in (AmountInputs \cup LongAmounts) \ {NaN} :
          (CreateRequest(p, sess, "UQdest", amt) /\ tonToNanoBig(amt) > 0) =>
             (req'[p].resp.error = "min withdraw"
                <=> tonToNanoBig(amt) < tonToNanoBig(MIN_WITHDRAW_TON))
     /\ \A p \in Procs :
          (req[p].pc = "c_commit" /\ req'[p].id # 0) =>
             (withdrawals'[req'[p].id].status = "processing"
                <=> req'[p].amountNano <= tonToNanoBig(AUTO_PAYOUT_MAX_TON))
    ]_vars

\* ------------------------------------------------------------------ C27
\* C27: when a create, approve or reject answers with success, the status in
\* its response is the status stored for the withdrawal at that moment.
C27_ResponseIsStoredStatus ==
  [][\A p \in Procs :
       (~Finished(p) /\ Finished(p)' /\ req'[p].resp.ok) =>
          /\ req'[p].id \in Ids
          /\ withdrawals'[req'[p].id].status = req'[p].resp.status
    ]_vars

\* ------------------------------------------------------------------ C28
\* C28: of an approve and a reject on the same pending withdrawal one takes
\* effect: a withdrawal whose gateway was called has no reject release, and a
\* reject that finished beside an approve that reached the gateway got
\* 'bad status' and appended nothing.
RejectReleases(i) ==
  LET k(e) == e.reason = "withdraw_reject_release" IN SelectSeq(RefEntries(i), k)

C28_ApproveXorReject ==
  \A i \in Ids :
    /\ gateway[i].calls > 0 => RejectReleases(i) = <<>>
    /\ \A p \in AdminOn("approve", i), q \in AdminOn("reject", i) :
         (req[p].sent > 0 /\ req[q].at = "pending" /\ Finished(q)) =>
            /\ req[q].resp.error = "bad status"
            /\ req[q].appended = <<>>

\* ------------------------------------------------------------------ C29
\* C29: the status of a withdrawal changes only along pending -> processing,
\* processing -> paid, processing -> failed and pending -> rejected (a row
\* appears as 'pending' or 'processing').
StatusEdges ==
  { <<"absent", "pending">>, <<"absent", "processing">>,
    <<"pending", "processing">>, <<"processing", "paid">>,
    <<"processing", "failed">>, <<"pending", "rejected">> }

C29_StatusEdges ==
  [][\A i \in Ids :
       withdrawals'[i].status # withdrawals[i].status =>
         <<withdrawals[i].status, withdrawals'[i].status>> \in StatusEdges
    ]_vars

\* ------------------------------------------------------------------ C30
\* C30: while no request stands between a release and its status UPDATE, the
\* entries with a withdrawal's id as ref sum to -amount when it is pending,
\* processing or paid and to 0 when it is failed or rejected, and every release
\* is an entry of +amount for the withdrawal's own address.
C30_RefSumByStatus ==
  \A i \in Ids :
    (withdrawals[i].status # "absent" /\ BetweenWrites(i) = {}) =>
      /\ SumDelta(RefEntries(i)) =
           (IF withdrawals[i].status \in {"failed", "rejected"}
            THEN 0 ELSE 0 - withdrawals[i].amount_nano)
      /\ \A k \in 1..Len(Releases(i)) :
           /\ Releases(i)[k].address = withdrawals[i].address
           /\ Releases(i)[k].delta_nano = withdrawals[i].amount_nano

\* ------------------------------------------------------------------ C31
\* C31: with DISABLE_PAYOUTS set no step calls the payout gateway and no
\* withdrawal becomes 'paid' or 'failed'; a create of an amount at or below the
\* ceiling ends with the row 'pending', answered 'pending', the hold the only
\* entry with its id; a step of an approve leaves every status and the ledger
\* as they were.
C31_DisabledPayoutsDryRun ==
  [][ DISABLE_PAYOUTS =>
        /\ gateway' = gateway
        /\ \A i \in Ids : withdrawals'[i].status \notin {"paid", "failed"}
        /\ \A p \in Procs :
             /\ \A i \in Ids :
                ( /\ req'[p].op = "create" /\ ~Finished(p) /\ Finished(p)'
                  /\ req'[p].id = i
                  /\ NumLE(req'[p].amountTon, AUTO_PAYOUT_MAX_TON) )
                =>    /\ withdrawals'[i].status = "pending"
                      /\ req'[p].resp = [ok |-> TRUE, status |-> "pending", error |-> "none"]
                      /\ RefEntries(i)' = <<HoldOf(i)'>>
                      /\ HoldOf(i)'.delta_nano = 0 - req'[p].amountNano
             /\ ( req'[p].op = "approve" /\ req'[p] # req[p] )
                => /\ ledger' = ledger
                   /\ \A i \in Ids : withdrawals'[i].status = withdrawals[i].status
    ]_vars

C31_Witness ==
  /\ DISABLE_PAYOUTS
  /\ \E p, q \in Procs :
       /\ req[p].op = "create" /\ Finished(p) /\ req[p].id # 0
       /\ NumLE(req[p].amountTon, AUTO_PAYOUT_MAX_TON)
       /\ withdrawals[req[p].id].note = <<"dry-run approve">>
       /\ withdrawals[req[p].id].status = "pending"
       /\ req[q].op = "approve" /\ Finished(q) /\ req[q].id = req[p].id
       /\ req[q].resp.ok /\ req[q].writes = 1
       /\ gateway[req[p].id].calls = 0

\* ------------------------------------------------------------------ C32
\* C32: a transfer (its hash) confirms at most one deposit: no two confirmed
\* deposits carry the same tx_hash.
C32_TransferConfirmsOnce ==
  \A d, e \in DepIds :
    ( /\ d # e
      /\ deposits[d].status = "confirmed"
      /\ deposits[e].status = "confirmed" )
    => deposits[d].tx_hash # deposits[e].tx_hash

\* ------------------------------------------------------------------ C33
\* C33: a step of a create, approve or reject request on withdrawal i of
\* address A leaves the row of every other withdrawal as it was, appends to the
\* ledger at most one entry, of address A with ref i, and leaves the balance of
\* every other address as it was.
C33_FrameOfWithdrawOps ==
  [][ \A p \in Procs :
        req'[p] # req[p] =>
          LET i == req'[p].id
              A == IF req'[p].op = "create" THEN req'[p].address
                   ELSE IF i \in Ids THEN withdrawals[i].address ELSE "none"
          IN /\ req'[p].op \in {"create", "approve", "reject"}
             /\ \A j \in Ids : j # i => withdrawals'[j] = withdrawals[j]
             /\ \/ ledger' = ledger
                \/ /\ Len(ledger') = Len(ledger) + 1
                   /\ SubSeq(ledger', 1, Len(ledger)) = ledger
                   /\ ledger'[Len(ledger')].address = A
                   /\ ledger'[Len(ledger')].ref = WRef(i)
             /\ \A a \in Addrs : a # A => Balance(a)' = Balance(a)
    ]_vars

\* a withdrawal of A2 was rejected and released while A1 holds its deposit
C33_Witness ==
  \E p \in Procs, i \in Ids :
    /\ req[p].op = "reject" /\ Finished(p) /\ req[p].id = i /\ req[p].resp.ok
    /\ withdrawals[i].status = "rejected" /\ withdrawals[i].address = "A2"
    /\ Len(Releases(i)) = 1
    /\ Balance("A2") = tonToNanoBig(InitialDeposit)
    /\ Balance("A1") = tonToNanoBig(InitialDeposit)

\* ------------------------------------------------------------------ C34
\* C34: a step of a user request that raises the balance of an address is a
\* step of a game finish, a referral claim or a bonus claim (deposit
\* confirmations and hold releases are steps of the poller and of the withdraw
\* requests): no other request of a session holder credits an address.
EarningOps == {"finish", "referral", "bonus"}

C34_CreditsOnlyFromEarnings ==
  [][ \A a \in Addrs :
        Balance(a)' > Balance(a) =>
          \A p \in UProcs : usr'[p] # usr[p] => usr'[p].op \in EarningOps
    ]_vars

\* ------------------------------------------------------------------ C35
\* C35: two bonus claims of one address that both appended a 'bonus_claim'
\* entry were made at least one bonus interval apart.
C35_OneBonusPerInterval ==
  \A p, q \in UProcs :
    ( /\ p # q
      /\ usr[p].op = "bonus" /\ usr[q].op = "bonus"
      /\ usr[p].address = usr[q].address
      /\ usr[p].appended # <<>> /\ usr[q].appended # <<>> )
    => \/ usr[p].now - usr[q].now >= BONUS_INTERVAL_HOURS
       \/ usr[q].now - usr[p].now >= BONUS_INTERVAL_HOURS

\* ------------------------------------------------------------------ C36
\* C36: for every game run, whatever finish calls are made: a finished run is
\* never written again (it went from started to finished once); the ledger
\* holds at most one 'tetris_reward' entry with the run as ref; at most one
\* finish call of the run accrued a referral bonus, and a pending referral
\* balance grows only in the step that finishes a started run, by a tenth of
\* its bet; a step of a finish call by another address than the run's owner
\* changes no table.
Rewards(g) ==
  LET k(e) == e.reason = "tetris_reward" /\ e.ref = GRef(g) IN SelectSeq(ledger, k)

Accruals(g) == {p \in UProcs : usr[p].op = "finish" /\ usr[p].run = g /\ usr[p].accrual > 0}

C36_RunFinishedOnce ==
  [][ /\ \A g \in Runs :
          /\ game_runs[g].status = "finished" => game_runs'[g] = game_runs[g]
          /\ game_runs'[g].status # game_runs[g].status
               => game_runs[g].status = "started" /\ game_runs'[g].status = "finished"
          /\ Len(Rewards(g)') <= 1
          /\ Cardinality(Accruals(g)') <= 1
          /\ \A p \in UProcs :
               ( /\ usr'[p] # usr[p] /\ usr'[p].op = "finish" /\ usr'[p].run = g
                 /\ usr'[p].address # game_runs[g].address )
               => /\ game_runs' = game_runs /\ ledger' = ledger
                  /\ referral_balances' = referral_balances /\ accrued' = accrued
                  /\ usr'[p].pc = "done" => ~usr'[p].resp.ok
      /\ \A a \in Addrs :
          referral_balances'[a].pending_nano > referral_balances[a].pending_nano
          => \E g \in Runs :
               /\ game_runs[g].status = "started" /\ game_runs'[g].status = "finished"
               /\ ReferrerOf(game_runs[g].address) = a
               /\ referral_balances'[a].pending_nano =
                    referral_balances[a].pending_nano + refBonus(game_runs[g].bet_nano)
    ]_vars

\* two finish calls of the owner on run 1: one finished and rewarded it, the
\* other was answered with the stored reward
C36_Witness ==
  \E p, q \in UProcs :
    /\ p # q
    /\ usr[p].op = "finish" /\ usr[q].op = "finish"
    /\ usr[p].run = 1 /\ usr[q].run = 1
    /\ usr[p].pc = "done" /\ usr[q].pc = "done"
    /\ usr[p].resp.ok /\ usr[q].resp.ok
    /\ usr[p].appended # <<>> /\ usr[q].appended = <<>>
    /\ usr[q].resp.nano = TETRIS_FIXED_REWARD_NANO
    /\ game_runs[1].status = "finished"
    /\ Len(Rewards(1)) = 1
    /\ referral_balances["A2"].pending_nano = refBonus(game_runs[1].bet_nano)

\* ------------------------------------------------------------------ C37
\* C37: in every committed state, for every address, the referral bonuses
\* accrued to it equal its pending referral balance plus the sum of its
\* 'referral_claim' ledger entries.
ReferralClaims(a) ==
  LET k(e) == e.address = a /\ e.reason = "referral_claim" IN SelectSeq(ledger, k)

C37_ReferralConservation ==
  \A a \in Addrs :
    accrued[a] = referral_balances[a].pending_nano + SumDelta(ReferralClaims(a))

\* ------------------------------------------------------------------ C38
\* C38: a list, approve or reject request whose token is not the configured
\* non-empty admin token is answered Unauthorized in its first step, which
\* changes no withdrawal row, appends no ledger entry and calls no gateway; a
\* refused request has written nothing; with no admin token configured every
\* admin request is refused.
AdminOps == {"list", "approve", "reject"}

C38_UnauthorizedNoEffect ==
  [][ \A p \in Procs :
        /\ \A token \in Tokens :
             ( /\ ~(ADMIN_TOKEN # "" /\ token = ADMIN_TOKEN)
               /\ \/ ListRequest(p, token)
                  \/ \E id \in Ids : ApproveRequest(p, token, id)
                  \/ \E id \in Ids : RejectRequest(p, token, id) )
             => /\ req'[p].pc = "done"
                /\ req'[p].resp = [ok |-> FALSE, status |-> "none", error |-> "Unauthorized"]
                /\ UNCHANGED <<withdrawals, ledger, gateway, rowLock>>
        /\ req'[p].resp.error = "Unauthorized"
             => /\ req'[p].pc = "done" /\ req'[p].op \in AdminOps
                /\ req'[p].writes = 0 /\ req'[p].appended = <<>> /\ req'[p].sent = 0
        /\ ( ADMIN_TOKEN = "" /\ req'[p].op \in AdminOps )
             => req'[p].resp.error = "Unauthorized"
    ]_vars

\* no admin token is configured: an approve was refused and the withdrawal it
\* named is still pending, its hold the only entry, the gateway not called
C38_Witness ==
  /\ ADMIN_TOKEN = ""
  /\ \E p \in Procs, i \in Ids :
       /\ req[p].op = "approve" /\ Finished(p)
       /\ req[p].resp.error = "Unauthorized"
       /\ withdrawals[i].status = "pending"
       /\ RefEntries(i) = <<HoldOf(i)>>
       /\ gateway[i].calls = 0

====
